---- MODULE Spec2Model ----
(***************************************************************************)
(* Report processing pipeline of HammerVoice (processReport and the code   *)
(* it calls), modelled as a state machine over the DailyReport store and   *)
(* the in-flight processReport invocations, with the trigger route that    *)
(* starts them, the upload route, the recorder component, the review       *)
(* client and the PDF route.                                               *)
(*                                                                         *)
(* Text is a sequence of tokens; a token is an atomic run of characters.   *)
(* JSON values are tagged records:                                         *)
(*   [t |-> "null"], [t |-> "bool", b |-> ...], [t |-> "num", n10 |-> k]   *)
(*   (the number k/10), [t |-> "str", s |-> text], [t |-> "arr", a |-> seq]*)
(*   and [t |-> "obj", o |-> members].                                     *)
(***************************************************************************)
EXTENDS Integers, Sequences, FiniteSets, TLC

VARIABLES
  reports,     \* the DailyReport table: report id -> row
  prevStatus,  \* per report, the status the last status-changing write replaced
  att,         \* per processReport invocation: its locals and its history
  replies,     \* the family the model replies are drawn from
  writers,     \* per report, whose update and whose terminal update came last
  requests,    \* per request to a route: its position and response
  review,      \* the review client of one report page
  recorder,    \* the recorder component and its MediaRecorder
  pdf          \* one request to the PDF route and the browser it launched

vars == <<reports, prevStatus, att, replies, writers, requests, review, recorder, pdf>>

\* ------------------------------------------------------------------------
\* Bounds of the model
\* ------------------------------------------------------------------------

\* longest model reply (in tokens) enumerated exhaustively by SpecParse
MaxRawLen == 5

\* the refreshes of the review client are counted up to this number
MaxRefreshes == 2

\* recordings started in one life of the recorder component
MaxRecordings == 2

\* ------------------------------------------------------------------------
\* JSON values
\* ------------------------------------------------------------------------

JNull == [t |-> "null"]

JUndef == [t |-> "undef"]

JBool(b) == [t |-> "bool", b |-> b]

JNum(k10) == [t |-> "num", n10 |-> k10]

JStr(s) == [t |-> "str", s |-> s]

JArr(a) == [t |-> "arr", a |-> a]

JObj(o) == [t |-> "obj", o |-> o]

\* property access on a parsed object: undefined when the key is absent
Get(o, k) == IF k \in DOMAIN o THEN o[k] ELSE JUndef

\* ------------------------------------------------------------------------
\* Text helpers (String.prototype.trim, indexOf, lastIndexOf, slice)
\* ------------------------------------------------------------------------

IsSpace(c) == c = " "

RECURSIVE TrimStart(_)
TrimStart(s) ==
  IF s # <<>> /\ IsSpace(Head(s)) THEN TrimStart(Tail(s)) ELSE s

RECURSIVE TrimEnd(_)
TrimEnd(s) ==
  IF s # <<>> /\ IsSpace(s[Len(s)]) THEN TrimEnd(SubSeq(s, 1, Len(s) - 1)) ELSE s

Trim(s) == TrimEnd(TrimStart(s))

\* 1-based position of the first occurrence of c, 0 when there is none
\* (the code's indexOf is 0-based with -1 for none)
IndexOf(s, c) ==
  IF \E i \in 1..Len(s) : s[i] = c
  THEN CHOOSE i \in 1..Len(s) : s[i] = c /\ \A j \in 1..(i - 1) : s[j] # c
  ELSE 0

LastIndexOf(s, c) ==
  IF \E i \in 1..Len(s) : s[i] = c
  THEN CHOOSE i \in 1..Len(s) : s[i] = c /\ \A j \in (i + 1)..Len(s) : s[j] # c
  ELSE 0

RECURSIVE Join(_, _)
Join(parts, sep) ==
  IF parts = <<>> THEN <<>>
  ELSE IF Len(parts) = 1 THEN parts[1]
  ELSE parts[1] \o sep \o Join(Tail(parts), sep)

\* ------------------------------------------------------------------------
\* JSON.parse on the token alphabet of model replies
\*   " "  whitespace          "x"  a character of prose
\*   "{" "}"  braces          "1"  a digit
\*   "B" "W" "E" ...          the member list of an object (see Bodies)
\* ------------------------------------------------------------------------

WorkEntrySample ==
  JObj([subcontractor |-> JStr(<<"Southern Masonry">>),
        task |-> JStr(<<"laying brick">>),
        crewSize |-> JNum(40)])

Bodies ==
  [B |-> [workPerformed |-> JArr(<<WorkEntrySample>>),
          deliveries |-> JArr(<<>>),
          delays |-> JArr(<<JObj([reason |-> JStr(<<"traffic">>),
                                  duration |-> JStr(<<"2 hours">>)])>>),
          safetyNotes |-> JNull],
   W |-> [workPerformed |-> JStr(<<"none">>)],
   E |-> [note |-> JStr(<<"extra">>)]]

BodyTokens == DOMAIN Bodies

\* ------------------------------------------------------------------------
\* Model replies that are one complete JSON document: the document is one
\* token, its serialised text, and JSON.parse gives back the value
\* ------------------------------------------------------------------------

Restrict(r, keys) == [k \in keys |-> r[k]]

Extend(r, key, v) == [k \in DOMAIN r \cup {key} |-> IF k = key THEN v ELSE r[k]]

WorkFull == WorkEntrySample.o

DeliveryFull == [material |-> JStr(<<"rebar">>), status |-> JStr(<<"arrived">>)]

DelayFull == [reason |-> JStr(<<"traffic">>), duration |-> JStr(<<"2 hours">>)]

FullDocument ==
  [workPerformed |-> JArr(<<JObj(WorkFull)>>),
   deliveries |-> JArr(<<JObj(DeliveryFull)>>),
   delays |-> JArr(<<JObj(DelayFull)>>),
   safetyNotes |-> JStr(<<"hard hats required">>)]

TopKeys == DOMAIN FullDocument

\* valid JSON whose top level is not an object
TopLevelNonObjects ==
  {JArr(<<>>), JArr(<<JObj(WorkFull)>>), JStr(<<"no work today">>),
   JNum(40), JBool(TRUE), JBool(FALSE), JNull}

\* objects with any subset of the four members absent, with and without a
\* member the schema does not know
PartialDocuments ==
  {JObj(Restrict(FullDocument, ks)) : ks \in SUBSET TopKeys}
  \cup {JObj(Extend(Restrict(FullDocument, ks), "weather", JStr(<<"sunny">>))) :
           ks \in SUBSET TopKeys}

\* objects whose entries have any subset of their fields absent
PartialEntryDocuments ==
  {JObj([workPerformed |-> JArr(<<JObj(Restrict(WorkFull, wk))>>),
         deliveries |-> JArr(<<JObj(Restrict(DeliveryFull, dk))>>),
         delays |-> JArr(<<JObj(Restrict(DelayFull, lk))>>),
         safetyNotes |-> JNull]) :
     wk \in SUBSET DOMAIN WorkFull, dk \in SUBSET DOMAIN DeliveryFull,
     lk \in SUBSET DOMAIN DelayFull}
  \cup {JObj([workPerformed |->
                JArr(<<JObj(Extend(Restrict(WorkFull, wk), "foreman", JStr(<<"Al">>)))>>)]) :
           wk \in SUBSET DOMAIN WorkFull}
  \cup {JObj([workPerformed |->
                JArr(<<JObj([subcontractor |-> JNull, task |-> JNull,
                             crewSize |-> JNull])>>),
              deliveries |-> JArr(<<JObj([material |-> JNull, status |-> JNull])>>),
              delays |-> JArr(<<JObj([reason |-> JNull, duration |-> JNull])>>)])}

\* crewSize values of every JSON type; JUndef stands for an absent key
CrewSizeInputs ==
  {JNum(40), JNum(35), JNum(0), JNum(-4), JNum(-20),
   JStr(<<"4">>), JStr(<<"-", "2">>), JStr(<<"f", "o", "u", "r">>),
   JStr(<<" ", "7", "k">>), JStr(<<>>),
   JBool(TRUE), JNull, JObj([count |-> JNum(40)]), JArr(<<JNum(40)>>), JUndef}

CrewSizeDocument(c) ==
  JObj([workPerformed |->
          JArr(<<JObj(IF c = JUndef THEN Restrict(WorkFull, {"subcontractor", "task"})
                      ELSE [WorkFull EXCEPT !.crewSize = c])>>)])

CrewSizeDocuments == {CrewSizeDocument(c) : c \in CrewSizeInputs}

\* values of the wrong type for a string field
WrongTypedValues == {JNum(50), JBool(TRUE)}

WrongTypedDocument(field, v) ==
  CASE field \in {"subcontractor", "task"} ->
         JObj([workPerformed |-> JArr(<<JObj([WorkFull EXCEPT ![field] = v])>>)])
    [] field \in {"material", "status"} ->
         JObj([deliveries |-> JArr(<<JObj([DeliveryFull EXCEPT ![field] = v])>>)])
    [] field \in {"reason", "duration"} ->
         JObj([delays |-> JArr(<<JObj([DelayFull EXCEPT ![field] = v])>>)])
    [] field = "safetyNotes" -> JObj([safetyNotes |-> v])

StringFields ==
  {"subcontractor", "task", "material", "status", "reason", "duration", "safetyNotes"}

WrongTypedDocuments ==
  {WrongTypedDocument(f, v) : f \in StringFields, v \in WrongTypedValues}

\* several entries per collection, and the safetyNotes variants
ManyEntryDocuments ==
  {JObj([workPerformed |->
           JArr(<<JObj(WorkFull),
                  JObj([subcontractor |-> JStr(<<"Acme Electric">>),
                        task |-> JStr(<<"pulling wire">>),
                        crewSize |-> JStr(<<"2">>)]),
                  JObj(WorkFull)>>),
         deliveries |->
           JArr(<<JObj([material |-> JStr(<<"lumber">>), status |-> JStr(<<"late">>)]),
                  JObj(DeliveryFull)>>),
         delays |-> JArr(<<>>)]),
   JObj([safetyNotes |-> JStr(<<>>)]),
   JObj([safetyNotes |-> JStr(<<"one near miss">>), delays |-> JArr(<<JObj(DelayFull), JObj(DelayFull)>>)])}

DigitOf(d) ==
  CASE d = 0 -> "0" [] d = 1 -> "1" [] d = 2 -> "2" [] d = 3 -> "3"
    [] d = 4 -> "4" [] d = 5 -> "5" [] d = 6 -> "6" [] d = 7 -> "7"
    [] d = 8 -> "8" [] d = 9 -> "9"

RECURSIVE DecimalDigits(_)
DecimalDigits(n) ==
  IF n < 10 THEN <<DigitOf(n)>> ELSE DecimalDigits(n \div 10) \o <<DigitOf(n % 10)>>

\* the string form of a non-negative number given in tenths: "4.6" for 4.6
NumberToString(k10) ==
  DecimalDigits(k10 \div 10)
    \o (IF k10 % 10 = 0 THEN <<>> ELSE <<".", DigitOf(k10 % 10)>>)

\* crew sizes with a fractional part, in tenths
FractionalCrewSizes == {5, 35, 42, 46, 125}

\* one entry carries the quantity as a number, the next as its string form
FractionalCrewDocument(k10) ==
  JObj([workPerformed |->
          JArr(<<JObj([WorkFull EXCEPT !.crewSize = JNum(k10)]),
                 JObj([WorkFull EXCEPT !.crewSize = JStr(NumberToString(k10))])>>)])

FractionalCrewDocuments == {FractionalCrewDocument(k) : k \in FractionalCrewSizes}

Collections == {"workPerformed", "deliveries", "delays"}

\* objects in which collections are explicitly null, which the extraction
\* instruction allows for what the transcript does not mention
NullCollectionDocuments ==
  {JObj([k \in TopKeys |-> IF k \in ks THEN JNull ELSE FullDocument[k]]) :
     ks \in (SUBSET Collections) \ {{}}}
  \cup {JObj([k \in {c} |-> JNull]) : c \in Collections}

JsonDocuments ==
  TopLevelNonObjects \cup PartialDocuments \cup PartialEntryDocuments
    \cup CrewSizeDocuments \cup WrongTypedDocuments \cup ManyEntryDocuments
    \cup NullCollectionDocuments \cup FractionalCrewDocuments

\* JSON.stringify of a document, as one token
DocumentToken(v) == ToString(v)

DocumentTokens == {DocumentToken(v) : v \in JsonDocuments}

DocumentOf(token) == CHOOSE v \in JsonDocuments : DocumentToken(v) = token

DocumentRaws == {<<DocumentToken(v)>> : v \in JsonDocuments}

IsDigits(s) == s # <<>> /\ \A i \in 1..Len(s) : s[i] = "1"

RECURSIVE DigitsValue(_)
DigitsValue(s) == IF s = <<>> THEN 0 ELSE 10 * DigitsValue(SubSeq(s, 1, Len(s) - 1)) + 1

JsonParse(text) ==
  LET core == Trim(text)
      inner == IF Len(core) >= 2 THEN Trim(SubSeq(core, 2, Len(core) - 1)) ELSE <<>>
  IN  IF IsDigits(core)
        THEN [ok |-> TRUE, value |-> JNum(10 * DigitsValue(core))]
      ELSE IF Len(core) = 1 /\ core[1] \in DocumentTokens
        THEN [ok |-> TRUE, value |-> DocumentOf(core[1])]
      ELSE IF Len(core) >= 2 /\ core[1] = "{" /\ core[Len(core)] = "}"
        THEN IF inner = <<>>
               THEN [ok |-> TRUE, value |-> JObj(<<>>)]
             ELSE IF Len(inner) = 1 /\ inner[1] \in BodyTokens
               THEN [ok |-> TRUE, value |-> JObj(Bodies[inner[1]])]
             ELSE [ok |-> FALSE, value |-> JUndef]
      ELSE [ok |-> FALSE, value |-> JUndef]

\* variant: the slice ends at the first closing brace
parseJsonObjectFirstClose(raw) ==
  LET trimmed == Trim(raw)
      direct == JsonParse(trimmed)
      firstBrace == IndexOf(trimmed, "{")
      lastBrace == IndexOf(trimmed, "}")
  IN  IF direct.ok THEN direct
      ELSE IF firstBrace # 0 /\ lastBrace # 0 /\ lastBrace > firstBrace
        THEN JsonParse(SubSeq(trimmed, firstBrace, lastBrace))
      ELSE [ok |-> FALSE, value |-> JUndef]

parseJsonObject(raw) ==
  LET trimmed == Trim(raw)
      direct == JsonParse(trimmed)
      firstBrace == IndexOf(trimmed, "{")
      lastBrace == LastIndexOf(trimmed, "}")
  IN  IF direct.ok THEN direct
      ELSE IF firstBrace # 0 /\ lastBrace # 0 /\ lastBrace > firstBrace
        THEN JsonParse(SubSeq(trimmed, firstBrace, lastBrace))
      ELSE [ok |-> FALSE, value |-> JUndef]

\* ------------------------------------------------------------------------
\* extractedSchema (zod) and normalizeExtracted
\* ------------------------------------------------------------------------

\* z.string().nullable().optional()
StringNullableOptional(v) == v.t \in {"str", "null", "undef"}

\* z.union([z.number(), z.string()]).nullable().optional()
CrewSizeSchema(v) == v.t \in {"num", "str", "null", "undef"}

WorkPerformedItemSchema(v) ==
  /\ v.t = "obj"
  /\ StringNullableOptional(Get(v.o, "subcontractor"))
  /\ StringNullableOptional(Get(v.o, "task"))
  /\ CrewSizeSchema(Get(v.o, "crewSize"))

DeliveryItemSchema(v) ==
  /\ v.t = "obj"
  /\ StringNullableOptional(Get(v.o, "material"))
  /\ StringNullableOptional(Get(v.o, "status"))

DelayItemSchema(v) ==
  /\ v.t = "obj"
  /\ StringNullableOptional(Get(v.o, "reason"))
  /\ StringNullableOptional(Get(v.o, "duration"))

\* z.array(item).default([]): undefined takes the default, anything else
\* must be an array of valid items
ArrayDefaultOk(v, Item(_)) ==
  \/ v.t = "undef"
  \/ v.t = "arr" /\ \A i \in 1..Len(v.a) : Item(v.a[i])

ArrayDefaultValue(v) == IF v.t = "undef" THEN <<>> ELSE v.a

\* z.string().nullable().default(null)
SafetyNotesOk(v) == v.t \in {"str", "null", "undef"}

extractedSchemaOk(v) ==
  /\ v.t = "obj"
  /\ ArrayDefaultOk(Get(v.o, "workPerformed"), WorkPerformedItemSchema)
  /\ ArrayDefaultOk(Get(v.o, "deliveries"), DeliveryItemSchema)
  /\ ArrayDefaultOk(Get(v.o, "delays"), DelayItemSchema)
  /\ SafetyNotesOk(Get(v.o, "safetyNotes"))

\* the parsed payload: known keys only, defaults applied, items stripped to
\* their declared keys (an absent item key stays undefined)
extractedSchemaValue(v) ==
  [workPerformed |->
     [i \in 1..Len(ArrayDefaultValue(Get(v.o, "workPerformed"))) |->
        LET e == ArrayDefaultValue(Get(v.o, "workPerformed"))[i].o
        IN  [subcontractor |-> Get(e, "subcontractor"),
             task |-> Get(e, "task"),
             crewSize |-> Get(e, "crewSize")]],
   deliveries |->
     [i \in 1..Len(ArrayDefaultValue(Get(v.o, "deliveries"))) |->
        LET e == ArrayDefaultValue(Get(v.o, "deliveries"))[i].o
        IN  [material |-> Get(e, "material"), status |-> Get(e, "status")]],
   delays |->
     [i \in 1..Len(ArrayDefaultValue(Get(v.o, "delays"))) |->
        LET e == ArrayDefaultValue(Get(v.o, "delays"))[i].o
        IN  [reason |-> Get(e, "reason"), duration |-> Get(e, "duration")]],
   safetyNotes |->
     IF Get(v.o, "safetyNotes").t = "undef" THEN JNull ELSE Get(v.o, "safetyNotes")]

\* variant: a value that is not an object is read as the empty object
extractedSchemaParseLenient(v) ==
  IF v.t # "obj" THEN [ok |-> TRUE, value |-> extractedSchemaValue(JObj(<<>>))]
  ELSE IF extractedSchemaOk(v) THEN [ok |-> TRUE, value |-> extractedSchemaValue(v)]
  ELSE [ok |-> FALSE, value |-> JUndef]

extractedSchemaParse(v) ==
  IF extractedSchemaOk(v)
  THEN [ok |-> TRUE, value |-> extractedSchemaValue(v)]
  ELSE [ok |-> FALSE, value |-> JUndef]

\* variant: an absent value stays undefined
OrNullKeepsUndefined(v) == IF v.t = "null" THEN JNull ELSE v

\* value ?? null
OrNull(v) == IF v.t \in {"null", "undef"} THEN JNull ELSE v

Max(a, b) == IF a >= b THEN a ELSE b

\* Math.round on a number given in tenths: nearest integer, ties upwards
MathRound(k10) == (k10 + 5) \div 10

DigitChars == {"0", "1", "2", "3", "4", "5", "6", "7", "8", "9"}

DigitValue(c) ==
  CASE c = "0" -> 0 [] c = "1" -> 1 [] c = "2" -> 2 [] c = "3" -> 3
    [] c = "4" -> 4 [] c = "5" -> 5 [] c = "6" -> 6 [] c = "7" -> 7
    [] c = "8" -> 8 [] c = "9" -> 9

RECURSIVE LeadingDigits(_)
LeadingDigits(s) ==
  IF s # <<>> /\ Head(s) \in DigitChars
  THEN <<Head(s)>> \o LeadingDigits(Tail(s))
  ELSE <<>>

RECURSIVE DecimalValue(_)
DecimalValue(ds) ==
  IF ds = <<>> THEN 0
  ELSE 10 * DecimalValue(SubSeq(ds, 1, Len(ds) - 1)) + DigitValue(ds[Len(ds)])

\* Number.parseInt(value, 10): leading whitespace, an optional sign, then
\* the longest run of digits; NaN when there is no digit
ParseInt(s) ==
  LET body == TrimStart(s)
      signed == body # <<>> /\ Head(body) \in {"-", "+"}
      negative == signed /\ Head(body) = "-"
      digits == LeadingDigits(IF signed THEN Tail(body) ELSE body)
  IN  IF digits = <<>> THEN [nan |-> TRUE, n |-> 0]
      ELSE [nan |-> FALSE,
            n |-> IF negative THEN 0 - DecimalValue(digits) ELSE DecimalValue(digits)]

\* variant: negative input is not a crew size
parseCrewSizeRejectsNegative(value) ==
  IF value.t = "num"
    THEN IF MathRound(value.n10) < 0 THEN JNull ELSE JNum(10 * MathRound(value.n10))
  ELSE IF value.t = "str" /\ ~ParseInt(value.s).nan
    THEN IF ParseInt(value.s).n < 0 THEN JNull ELSE JNum(10 * ParseInt(value.s).n)
  ELSE JNull

parseCrewSize(value) ==
  IF value.t = "num" THEN JNum(10 * Max(0, MathRound(value.n10)))
  ELSE IF value.t = "str" /\ ~ParseInt(value.s).nan
    THEN JNum(10 * Max(0, ParseInt(value.s).n))
  ELSE JNull

normalizeExtracted(payload) ==
  [t |-> "extracted",
   workPerformed |->
     [i \in 1..Len(payload.workPerformed) |->
        [subcontractor |-> OrNull(payload.workPerformed[i].subcontractor),
         task |-> OrNull(payload.workPerformed[i].task),
         crewSize |-> parseCrewSize(payload.workPerformed[i].crewSize)]],
   deliveries |->
     [i \in 1..Len(payload.deliveries) |->
        [material |-> OrNull(payload.deliveries[i].material),
         status |-> OrNull(payload.deliveries[i].status)]],
   delays |->
     [i \in 1..Len(payload.delays) |->
        [reason |-> OrNull(payload.delays[i].reason),
         duration |-> OrNull(payload.delays[i].duration)]],
   safetyNotes |-> OrNull(payload.safetyNotes)]

\* ------------------------------------------------------------------------
\* buildMarkdown
\* ------------------------------------------------------------------------

\* `${value ?? ""}` for a nullable string
Cell(v) == IF v.t = "str" THEN v.s ELSE <<>>

\* row.crewSize !== null ? String(row.crewSize) : ""
CrewCell(v) == IF v.t = "null" THEN <<>> ELSE <<ToString(v.n10 \div 10)>>

\* variant: the work rows leave the subcontractor cell empty
WorkRowWithoutSubcontractor(row) ==
  <<"| ">> \o <<" | ">> \o Cell(row.task)
    \o <<" | ">> \o CrewCell(row.crewSize) \o <<" |">>

WorkRow(row) ==
  <<"| ">> \o Cell(row.subcontractor) \o <<" | ">> \o Cell(row.task)
    \o <<" | ">> \o CrewCell(row.crewSize) \o <<" |">>

PairRow(a, b) == <<"| ">> \o Cell(a) \o <<" | ">> \o Cell(b) \o <<" |">>

\* variant: an empty table body is left empty
OrPlaceholderOmitted(rows, placeholder) == rows

\* rows || placeholder
OrPlaceholder(rows, placeholder) == IF rows = <<>> THEN placeholder ELSE rows

\* variant: the summary also shows the status the row has when it is rendered
buildMarkdownWithStatus(reportId, transcriptText, extracted) ==
  Join(<< <<"# DAILY CONSTRUCTION REPORT">>,
          <<"- Report ID: ", reportId>>,
          <<"- Status: ", reports[reportId].status>>,
          <<"## Transcript">>,
          transcriptText >>, <<"\n">>)

buildMarkdown(reportId, transcriptText, extracted) ==
  LET workRows ==
        Join([i \in 1..Len(extracted.workPerformed) |->
                WorkRow(extracted.workPerformed[i])], <<"\n">>)
      deliveryRows ==
        Join([i \in 1..Len(extracted.deliveries) |->
                PairRow(extracted.deliveries[i].material,
                        extracted.deliveries[i].status)], <<"\n">>)
      delayRows ==
        Join([i \in 1..Len(extracted.delays) |->
                PairRow(extracted.delays[i].reason,
                        extracted.delays[i].duration)], <<"\n">>)
  IN  Join(<< <<"# DAILY CONSTRUCTION REPORT">>,
              <<>>,
              <<"- Report ID: ", reportId>>,
              <<>>,
              <<"## Work Performed">>,
              <<"| Subcontractor | Task | Crew Size |">>,
              <<"| --- | --- | --- |">>,
              OrPlaceholder(workRows, <<"| | | |">>),
              <<>>,
              <<"## Deliveries">>,
              <<"| Material | Status |">>,
              <<"| --- | --- |">>,
              OrPlaceholder(deliveryRows, <<"| | |">>),
              <<>>,
              <<"## Delays">>,
              <<"| Reason | Duration |">>,
              <<"| --- | --- |">>,
              OrPlaceholder(delayRows, <<"| | |">>),
              <<>>,
              <<"## Safety Notes">>,
              IF extracted.safetyNotes.t = "null" THEN <<"None">>
              ELSE extracted.safetyNotes.s,
              <<>>,
              <<"## Transcript">>,
              transcriptText >>, <<"\n">>)

\* ------------------------------------------------------------------------
\* The record store and the processReport invocations
\* ------------------------------------------------------------------------

ReportIds == {"r1", "r2"}

\* a well-formed id that no row has
MissingId == "r0"

Attempts == {"a1", "a2"}

AttemptOrder == <<"a1", "a2">>

UPLOADING == "UPLOADING"

DRAFT == "DRAFT"

PROCESSING == "PROCESSING"

READY == "READY"

FAILED == "FAILED"

\* variant: the upload route creates the row as a draft
UploadCreatedDraft(id) ==
  [status |-> DRAFT,
   file_key |-> <<"audio/", id, ".webm">>,
   transcript_text |-> <<>>,
   extracted_json |-> [t |-> "uploadMeta"],
   markdown_content |-> <<>>]

\* row created by the upload route
UploadCreated(id) ==
  [status |-> UPLOADING,
   file_key |-> <<"audio/", id, ".webm">>,
   transcript_text |-> <<>>,
   extracted_json |-> [t |-> "uploadMeta"],
   markdown_content |-> <<>>]

\* row created by the pipeline smoke test
TestCreated(id) ==
  [status |-> UPLOADING,
   file_key |-> <<"test/mock-", id, ".webm">>,
   transcript_text |-> <<>>,
   extracted_json |-> JNull,
   markdown_content |-> <<>>]

NoRow ==
  [status |-> "NONE", file_key |-> <<>>, transcript_text |-> <<>>,
   extracted_json |-> JNull, markdown_content |-> <<>>]

SAMPLE_TRANSCRIPT == <<"4 guys from Southern Masonry laying brick">>

NoOverride == [given |-> FALSE, text |-> <<>>]

Override(text) == [given |-> TRUE, text |-> text]

Overrides ==
  {NoOverride, Override(<<>>), Override(<<" ">>),
   Override(<<" ">> \o SAMPLE_TRANSCRIPT \o <<" ">>)}

\* outcomes of openai.audio.transcriptions.create
WhisperResults ==
  {[error |-> TRUE, hasText |-> FALSE, text |-> <<>>],
   [error |-> FALSE, hasText |-> FALSE, text |-> <<>>],
   [error |-> FALSE, hasText |-> TRUE, text |-> <<" ">>],
   [error |-> FALSE, hasText |-> TRUE, text |-> <<" ", "concrete delivery 2 hours late", " ">>]}

RawAlphabet == {" ", "x", "{", "}", "1", "B"}

AllRaws == UNION {[1..n -> RawAlphabet] : n \in 0..MaxRawLen}

SampleRaws ==
  {<<>>, <<" ">>, <<"x">>, <<"1">>, <<"{", "B", "}">>, <<"{", "}">>,
   <<"{", "W", "}">>, <<"x", "{", "B", "}", "x">>, <<"}", "{">>,
   <<"{", "B", "}", "x", "{", "}">>}

\* the texts the model's reply is drawn from
ReplyTexts ==
  CASE replies = "sample" -> SampleRaws
    [] replies = "all" -> AllRaws
    [] replies = "documents" -> DocumentRaws

\* outcomes of openai.chat.completions.create
ExtractionResults ==
  {[error |-> TRUE, hasContent |-> FALSE, text |-> <<>>],
   [error |-> FALSE, hasContent |-> FALSE, text |-> <<>>]}
  \cup {[error |-> FALSE, hasContent |-> TRUE, text |-> r] :
          r \in ReplyTexts}

\* no update has been applied to the row yet
NoWriter == [last |-> "none", terminal |-> "none"]

Requests == {"q1", "q2"}

IdleRequest ==
  [pc |-> "idle", reportId |-> MissingId, response |-> 0, started |-> "none",
   returned |-> "none", error |-> "none"]

\* ------------------------------------------------------------------------
\* getMimeTypeFromKey; a storage key is a sequence of characters
\* ------------------------------------------------------------------------

UpperCase ==
  [A |-> "a", E |-> "e", G |-> "g", M |-> "m", P |-> "p", V |-> "v", W |-> "w"]

\* variant: the key is compared as it is
ToLowerCaseIdentity(s) == s

\* String.prototype.toLowerCase
ToLowerCase(s) ==
  [i \in 1..Len(s) |-> IF s[i] \in DOMAIN UpperCase THEN UpperCase[s[i]] ELSE s[i]]

\* String.prototype.endsWith
EndsWith(s, suffix) ==
  /\ Len(s) >= Len(suffix)
  /\ SubSeq(s, Len(s) - Len(suffix) + 1, Len(s)) = suffix

getMimeTypeFromKey(fileKey) ==
  LET lower == ToLowerCase(fileKey)
  IN  IF EndsWith(lower, <<".", "m", "p", "3">>)
           \/ EndsWith(lower, <<".", "m", "p", "e", "g">>) THEN "audio/mpeg"
      ELSE IF EndsWith(lower, <<".", "w", "a", "v">>) THEN "audio/wav"
      ELSE IF EndsWith(lower, <<".", "m", "4", "a">>) THEN "audio/mp4"
      ELSE "audio/webm"

\* file names with the extensions in lower, upper and mixed case, with other
\* extensions, with an extension that is not at the end, and without one
FileNames ==
  {<<"r", ".", "m", "p", "3">>, <<"r", ".", "M", "P", "3">>, <<"r", ".", "M", "p", "3">>,
   <<"r", ".", "m", "p", "e", "g">>, <<"r", ".", "M", "P", "E", "G">>,
   <<"r", ".", "w", "a", "v">>, <<"r", ".", "W", "A", "V">>, <<"r", ".", "W", "a", "v">>,
   <<"r", ".", "m", "4", "a">>, <<"r", ".", "M", "4", "A">>,
   <<"r", ".", "w", "e", "b", "m">>, <<"r", ".", "o", "g", "g">>,
   <<"r", ".", "m", "p", "4">>, <<"r", ".", "m", "p", "3", "x">>,
   <<"r", ".", "m", "p", "3", ".", "b", "a", "k">>, <<"r", ".", "w", "a", "v", ".">>,
   <<"r", ".", "m", "p", "3", "/", "r">>, <<"m", "p", "3">>, <<"r", "w", "a", "v">>,
   <<"r", ".", "m", "p", "g">>, <<"r">>, <<"r", ".">>, <<".", "m", "4", "a">>}

FileKeys == {<<"a", "/">> \o name : name \in FileNames}

\* the review page before it is opened
ClosedReview ==
  [open |-> FALSE, reportId |-> MissingId, status |-> "NONE",
   interval |-> FALSE, pending |-> FALSE, refreshes |-> 0]

Recordings == 1..MaxRecordings

\* a MediaRecorder that has not been constructed yet; outcome, triggers,
\* requested and stoppedInactive record what happened to it
NoMediaRecorder ==
  [state |-> "none", errorPending |-> FALSE, dataPending |-> FALSE,
   stopPending |-> FALSE, onstop |-> "none", outcome |-> "none", triggers |-> 0,
   requested |-> FALSE, stoppedInactive |-> FALSE]

\* the recorder component as mounted: mediaRecorderRef 0 is null, chunks
\* tells whether chunksRef holds audio
IdleRecorder ==
  [status |-> "idle", mediaRecorderRef |-> 0, chunks |-> FALSE,
   errorMessage |-> FALSE, started |-> 0,
   rec |-> [i \in Recordings |-> NoMediaRecorder]]

PdfRequests == {"p1", "p2", "p3"}

\* a request to the PDF route that has not arrived yet; browser is the
\* headless browser it launched, closeCalls counts browser.close()
NoPdfRequest ==
  [pc |-> "idle", body |-> "none", pathSet |-> FALSE, response |-> 0,
   browser |-> "none", rendered |-> "none", closeCalls |-> 0, closeFailed |-> FALSE]

\* the PDF route before any request
IdlePdf == [p \in PdfRequests |-> NoPdfRequest]

IdleAttempt ==
  [pc |-> "idle", reportId |-> MissingId, override |-> NoOverride,
   transcriptText |-> <<>>, raw |-> <<>>,
   extractedJson |-> JNull, markdownContent |-> <<>>,
   err |-> "none", thrown |-> "none",
   calls |-> <<>>, writes |-> <<>>, swallowed |-> FALSE,
   obtained |-> [has |-> FALSE, text |-> <<>>], reply |-> "none",
   pre |-> NoRow, overlapped |-> FALSE,
   file_key |-> <<>>, mimeType |-> "none"]

Init ==
  /\ reports = [id \in ReportIds |->
                  IF id = "r1" THEN UploadCreated(id) ELSE TestCreated(id)]
  /\ prevStatus = [id \in ReportIds |-> "NONE"]
  /\ att = [a \in Attempts |-> IdleAttempt]
  /\ replies = "sample"
  /\ writers = [id \in ReportIds |-> NoWriter]
  /\ requests = [q \in Requests |-> IdleRequest]
  /\ review = ClosedReview
  /\ recorder = IdleRecorder
  /\ pdf = IdlePdf

InFlight(a) == att[a].pc \notin {"idle", "done"}

Exists(id) == id \in DOMAIN reports

\* variant: a failed audio download is attempted once more
ThrowRetriesRetrieval(rec, e) ==
  IF e = "RetrievalError" /\ Len(rec.calls) < 2
  THEN [rec EXCEPT !.pc = "audio"]
  ELSE [rec EXCEPT !.pc = "catch", !.err = e]

\* variant: the error leaves the function without the catch clause
ThrowSkipsCatch(rec, e) == [rec EXCEPT !.pc = "done", !.err = e, !.thrown = e]

\* throw inside the try block: control passes to the catch clause
Throw(rec, e) == [rec EXCEPT !.pc = "catch", !.err = e]

\* variant: the PROCESSING update also resets the content columns
ProcessingDataClearsContent(row) ==
  [row EXCEPT !.status = PROCESSING, !.transcript_text = <<>>,
              !.extracted_json = JNull, !.markdown_content = <<>>]

\* variant: the PROCESSING update also rewrites the storage key
ProcessingDataRekeys(row) ==
  [row EXCEPT !.status = PROCESSING, !.file_key = <<"audio/", "processing">>]

\* data: { status: PROCESSING }
ProcessingData(row) == [row EXCEPT !.status = PROCESSING]

\* variant: the READY update carries the status alone
ReadyDataStatusOnly(row, transcriptText, extractedJson, markdownContent) ==
  [row EXCEPT !.status = READY]

\* variant: a row that already holds an extraction keeps its content
ReadyDataKeepsExisting(row, transcriptText, extractedJson, markdownContent) ==
  IF row.extracted_json.t = "extracted"
  THEN [row EXCEPT !.status = READY]
  ELSE [row EXCEPT !.transcript_text = transcriptText,
                   !.extracted_json = extractedJson,
                   !.markdown_content = markdownContent,
                   !.status = READY]

\* variant: a transcript already stored on the row is kept
ReadyDataKeepsTranscript(row, transcriptText, extractedJson, markdownContent) ==
  [row EXCEPT !.transcript_text = IF @ # <<>> THEN @ ELSE transcriptText,
              !.extracted_json = extractedJson,
              !.markdown_content = markdownContent,
              !.status = READY]

\* data: { transcript_text, extracted_json, markdown_content, status: READY }
ReadyData(row, transcriptText, extractedJson, markdownContent) ==
  [row EXCEPT !.transcript_text = transcriptText,
              !.extracted_json = extractedJson,
              !.markdown_content = markdownContent,
              !.status = READY]

\* variant: the FAILED update also resets the content columns
FailedDataClearsContent(row) ==
  [row EXCEPT !.status = FAILED, !.transcript_text = <<>>,
              !.extracted_json = JNull, !.markdown_content = <<>>]

\* variant: the FAILED update puts the row back to UPLOADING
FailedDataResets(row) == [row EXCEPT !.status = UPLOADING]

\* variant: the FAILED update carries no status
FailedDataKeepsStatus(row) == row

\* variant: the FAILED update does not replace READY
FailedDataUnlessReady(row) ==
  IF row.status = READY THEN row ELSE [row EXCEPT !.status = FAILED]

\* data: { status: FAILED }
FailedData(row) == [row EXCEPT !.status = FAILED]

\* variant: the update has no where clause and sets the status of every row
ApplyUpdateMany(id, row) ==
  /\ reports' = [i \in DOMAIN reports |->
                   IF i = id THEN row ELSE [reports[i] EXCEPT !.status = row.status]]
  /\ prevStatus' = [prevStatus EXCEPT
                      ![id] = IF row.status # reports[id].status
                              THEN reports[id].status ELSE @]

\* prisma.dailyReport.update applied to the row of id
ApplyUpdate(id, row) ==
  /\ reports' = [reports EXCEPT ![id] = row]
  /\ prevStatus' = [prevStatus EXCEPT
                      ![id] = IF row.status # reports[id].status
                              THEN reports[id].status ELSE @]

\* options.transcriptOverride?.trim() ?? ""
OverrideText(ov) == IF ov.given THEN Trim(ov.text) ELSE <<>>

\* if (!transcriptText) { ...download and transcribe... }
NeedsTranscription(text) == text = <<>>

\* if (!transcriptText) throw new Error("Whisper returned an empty transcript.")
IsEmptyTranscript(text) == text = <<>>

\* variant: the lookup result is not examined
AfterLookupUnchecked(rec, found) == [rec EXCEPT !.pc = "markProcessing"]

\* variant: a row that is being processed is refused like a missing one
AfterLookupUnlessProcessing(rec, found) ==
  IF ~found \/ reports[rec.reportId].status = PROCESSING
  THEN Throw(rec, "NotFound")
  ELSE [rec EXCEPT !.pc = "markProcessing"]

\* if (!report) throw new Error(`Report ${reportId} not found.`)
AfterLookup(rec, found) ==
  IF ~found THEN Throw(rec, "NotFound") ELSE [rec EXCEPT !.pc = "markProcessing"]

\* variant: a failed FAILED update replaces the error that is rethrown
RethrownSecondary(err, updateOk) == IF updateOk THEN err ELSE "FailedWriteError"

\* variant: an error of the READY update is not rethrown
RethrownUnlessReadyWrite(err, updateOk) ==
  IF err = "ReadyWriteError" THEN "none" ELSE err

\* the throw of the catch clause: the error caught, whatever the FAILED
\* update did
Rethrown(err, updateOk) == err

\* if (!transcriptText) throw ...; then the extraction request is issued
AfterTranscript(rec) ==
  IF IsEmptyTranscript(rec.transcriptText)
  THEN Throw(rec, "EmptyTranscript")
  ELSE [rec EXCEPT !.pc = "extract"]

\* processReport is called: env parsing, then the record lookup is issued
Invoke(a) ==
  /\ att[a].pc = "idle"
  /\ \A i \in 1..Len(AttemptOrder) :
       AttemptOrder[i] = a => \A j \in 1..(i - 1) : att[AttemptOrder[j]].pc # "idle"
  /\ \E id \in ReportIds \cup {MissingId}, ov \in Overrides, envOk \in BOOLEAN :
       LET base == [att[a] EXCEPT
                      !.reportId = id,
                      !.override = ov,
                      !.pre = IF Exists(id) THEN reports[id] ELSE NoRow,
                      !.overlapped = \E b \in Attempts : InFlight(b)]
       IN  att' = [b \in Attempts |->
                     IF b = a
                     THEN IF envOk THEN [base EXCEPT !.pc = "lookup"]
                          ELSE Throw(base, "ConfigError")
                     ELSE IF InFlight(b) THEN [att[b] EXCEPT !.overlapped = TRUE]
                     ELSE att[b]]
  /\ UNCHANGED <<reports, prevStatus, replies, writers, requests, review, recorder, pdf>>

\* the smoke test's call: an existing row and the sample transcript
InvokeReplay(a) ==
  /\ att[a].pc = "idle"
  /\ \E id \in ReportIds :
       att' = [att EXCEPT ![a] =
                 [@ EXCEPT !.pc = "lookup", !.reportId = id,
                           !.override = Override(SAMPLE_TRANSCRIPT),
                           !.pre = reports[id]]]
  /\ UNCHANGED <<reports, prevStatus, replies, writers, requests, review, recorder, pdf>>

\* prisma.dailyReport.findUnique settles
Lookup(a) ==
  /\ att[a].pc = "lookup"
  /\ \E dbOk \in BOOLEAN :
       att' = [att EXCEPT ![a] =
                 IF ~dbOk THEN Throw(@, "LookupError")
                 ELSE AfterLookup([att[a] EXCEPT !.file_key =
                                     IF Exists(att[a].reportId)
                                     THEN reports[att[a].reportId].file_key
                                     ELSE <<>>],
                                  Exists(att[a].reportId))]
  /\ UNCHANGED <<reports, prevStatus, replies, writers, requests, review, recorder, pdf>>

\* variant: without an override a transcript stored on the row is taken over
MarkProcessingResumes(a) ==
  /\ att[a].pc = "markProcessing"
  /\ \E dbOk \in BOOLEAN, r2EnvOk \in BOOLEAN :
       LET id == att[a].reportId
           rec == [att[a] EXCEPT
                     !.writes = Append(@, PROCESSING),
                     !.transcriptText =
                       IF OverrideText(att[a].override) = <<>> /\ Exists(id)
                       THEN reports[id].transcript_text
                       ELSE OverrideText(att[a].override)]
       IN  IF dbOk /\ Exists(id)
           THEN /\ ApplyUpdate(id, ProcessingData(reports[id]))
                /\ writers' = [writers EXCEPT ![id].last = a]
                /\ att' = [att EXCEPT ![a] =
                             IF NeedsTranscription(rec.transcriptText)
                             THEN IF r2EnvOk THEN [rec EXCEPT !.pc = "audio"]
                                  ELSE Throw(rec, "R2ConfigError")
                             ELSE AfterTranscript(rec)]
           ELSE /\ att' = [att EXCEPT ![a] = Throw(@, "ProcessingWriteError")]
                /\ UNCHANGED <<reports, prevStatus, writers>>
  /\ UNCHANGED <<replies, requests, review, recorder, pdf>>

\* the PROCESSING update settles; then the override is examined and either
\* the audio download or the extraction request is issued
MarkProcessing(a) ==
  /\ att[a].pc = "markProcessing"
  /\ \E dbOk \in BOOLEAN, r2EnvOk \in BOOLEAN :
       LET id == att[a].reportId
           rec == [att[a] EXCEPT !.writes = Append(@, PROCESSING),
                                 !.transcriptText = OverrideText(att[a].override)]
       IN  IF dbOk /\ Exists(id)
           THEN /\ ApplyUpdate(id, ProcessingData(reports[id]))
                /\ writers' = [writers EXCEPT ![id].last = a]
                /\ att' = [att EXCEPT ![a] =
                             IF NeedsTranscription(rec.transcriptText)
                             THEN IF r2EnvOk THEN [rec EXCEPT !.pc = "audio"]
                                  ELSE Throw(rec, "R2ConfigError")
                             ELSE AfterTranscript(
                                    [rec EXCEPT !.obtained =
                                       [has |-> TRUE, text |-> att[a].override.text]])]
           ELSE /\ att' = [att EXCEPT ![a] = Throw(@, "ProcessingWriteError")]
                /\ UNCHANGED <<reports, prevStatus, writers>>
  /\ UNCHANGED <<replies, requests, review, recorder, pdf>>

\* getAudioBytesFromR2 settles; the mime type is inferred from the key and
\* the transcription request is issued
Audio(a) ==
  /\ att[a].pc = "audio"
  /\ \E ok \in BOOLEAN :
       LET rec == [att[a] EXCEPT !.calls = Append(@, "audio")]
       IN  att' = [att EXCEPT ![a] =
                     IF ok
                     THEN [rec EXCEPT !.pc = "transcribe",
                                      !.mimeType = getMimeTypeFromKey(rec.file_key)]
                     ELSE Throw(rec, "RetrievalError")]
  /\ UNCHANGED <<reports, prevStatus, replies, writers, requests, review, recorder, pdf>>

\* the transcription request settles
Transcribe(a) ==
  /\ att[a].pc = "transcribe"
  /\ \E res \in WhisperResults :
       LET rec == [att[a] EXCEPT !.calls = Append(@, "transcribe")]
       IN  att' = [att EXCEPT ![a] =
                     IF res.error THEN Throw(rec, "TranscriptionError")
                     ELSE AfterTranscript(
                            [rec EXCEPT !.obtained = [has |-> TRUE, text |-> res.text],
                                        !.transcriptText =
                                          IF res.hasText THEN Trim(res.text) ELSE <<>>])]
  /\ UNCHANGED <<reports, prevStatus, replies, writers, requests, review, recorder, pdf>>

\* the extraction request settles; parsing, validation, normalisation and
\* rendering follow without suspension, then the READY update is issued
Extract(a) ==
  /\ att[a].pc = "extract"
  /\ \E res \in ExtractionResults :
       LET rec == [att[a] EXCEPT
                     !.calls = Append(@, "extract"),
                     !.raw = res.text,
                     !.reply = IF res.error THEN "error"
                               ELSE IF res.hasContent THEN "content" ELSE "null"]
           parsed == parseJsonObject(res.text)
           validated == extractedSchemaParse(parsed.value)
           extractedJson == normalizeExtracted(validated.value)
       IN  att' = [att EXCEPT ![a] =
                     IF res.error THEN Throw(rec, "ExtractionError")
                     ELSE IF ~res.hasContent \/ res.text = <<>>
                       THEN Throw(rec, "NoContent")
                     ELSE IF ~parsed.ok THEN Throw(rec, "InvalidJson")
                     ELSE IF ~validated.ok THEN Throw(rec, "ValidationError")
                     ELSE [rec EXCEPT
                             !.pc = "markReady",
                             !.extractedJson = extractedJson,
                             !.markdownContent =
                               buildMarkdown(rec.reportId, rec.transcriptText,
                                             extractedJson)]]
  /\ UNCHANGED <<reports, prevStatus, replies, writers, requests, review, recorder, pdf>>

\* the READY update settles
MarkReady(a) ==
  /\ att[a].pc = "markReady"
  /\ \E dbOk \in BOOLEAN :
       LET id == att[a].reportId
       IN  IF dbOk /\ Exists(id)
           THEN /\ ApplyUpdate(id, ReadyData(reports[id], att[a].transcriptText,
                                             att[a].extractedJson,
                                             att[a].markdownContent))
                /\ writers' = [writers EXCEPT ![id] = [last |-> a, terminal |-> a]]
                /\ att' = [att EXCEPT ![a] =
                             [@ EXCEPT !.pc = "done", !.writes = Append(@, READY)]]
           ELSE /\ att' = [att EXCEPT ![a] = Throw(@, "ReadyWriteError")]
                /\ UNCHANGED <<reports, prevStatus, writers>>
  /\ UNCHANGED <<replies, requests, review, recorder, pdf>>

\* the catch clause: the FAILED update settles (its own failure is
\* swallowed), then the caught error is rethrown
Catch(a) ==
  /\ att[a].pc = "catch"
  /\ \E dbOk \in BOOLEAN :
       LET id == att[a].reportId
           updateOk == dbOk /\ Exists(id)
       IN  /\ IF updateOk
              THEN /\ ApplyUpdate(id, FailedData(reports[id]))
                   /\ writers' = [writers EXCEPT ![id] = [last |-> a, terminal |-> a]]
              ELSE UNCHANGED <<reports, prevStatus, writers>>
           /\ att' = [att EXCEPT ![a] =
                        [@ EXCEPT !.pc = "done",
                                  !.writes = IF updateOk THEN Append(@, FAILED) ELSE @,
                                  !.swallowed = ~updateOk,
                                  !.thrown = Rethrown(att[a].err, updateOk)]]
  /\ UNCHANGED <<replies, requests, review, recorder, pdf>>

Next ==
  \E a \in Attempts :
    \/ Invoke(a)
    \/ Lookup(a)
    \/ MarkProcessing(a)
    \/ Audio(a)
    \/ Transcribe(a)
    \/ Extract(a)
    \/ MarkReady(a)
    \/ Catch(a)

Spec == Init /\ [][Next]_vars

\* one replayed invocation whose model reply ranges over every short text
InitParse ==
  /\ reports = [id \in ReportIds |->
                  IF id = "r1" THEN UploadCreated(id) ELSE TestCreated(id)]
  /\ prevStatus = [id \in ReportIds |-> "NONE"]
  /\ att = [a \in Attempts |-> IdleAttempt]
  /\ replies = "all"
  /\ writers = [id \in ReportIds |-> NoWriter]
  /\ requests = [q \in Requests |-> IdleRequest]
  /\ review = ClosedReview
  /\ recorder = IdleRecorder
  /\ pdf = IdlePdf

NextParse ==
  \E a \in {"a1"} :
    \/ InvokeReplay(a)
    \/ Lookup(a)
    \/ MarkProcessing(a)
    \/ Extract(a)
    \/ MarkReady(a)
    \/ Catch(a)

SpecParse == InitParse /\ [][NextParse]_vars

\* ------------------------------------------------------------------------
\* The trigger route: POST /api/reports/process
\* ------------------------------------------------------------------------

\* request bodies: not JSON, JSON that requestSchema rejects, and a reportId
RequestBodies ==
  {[kind |-> "notJson", reportId |-> MissingId],
   [kind |-> "invalid", reportId |-> MissingId]}
  \cup {[kind |-> "ok", reportId |-> id] : id \in ReportIds \cup {MissingId}}

RequestOrder == <<"q1", "q2">>

\* the invocation a new call of processReport runs as
NextAttempt ==
  CHOOSE a \in Attempts :
    /\ att[a].pc = "idle"
    /\ \A i \in 1..Len(AttemptOrder) :
         AttemptOrder[i] = a => \A j \in 1..(i - 1) : att[AttemptOrder[j]].pc # "idle"

\* processReport(reportId) is called: it runs up to its first await
Begin(a, id, envOk) ==
  LET base == [att[a] EXCEPT
                 !.reportId = id,
                 !.override = NoOverride,
                 !.pre = IF Exists(id) THEN reports[id] ELSE NoRow,
                 !.overlapped = \E b \in Attempts : InFlight(b)]
  IN  [b \in Attempts |->
         IF b = a
         THEN IF envOk THEN [base EXCEPT !.pc = "lookup"]
              ELSE Throw(base, "ConfigError")
         ELSE IF InFlight(b) THEN [att[b] EXCEPT !.overlapped = TRUE]
         ELSE att[b]]

\* variant: the background task is started whether or not a row was found
StartsProcessingAlways(found) == TRUE

\* if (!report) return 404, before the call of processReport
StartsProcessing(found) == found

\* the body is read and checked; then the record lookup is issued
Post(q) ==
  /\ requests[q].pc = "idle"
  /\ \A i \in 1..Len(RequestOrder) :
       RequestOrder[i] = q => \A j \in 1..(i - 1) : requests[RequestOrder[j]].pc # "idle"
  /\ \E body \in RequestBodies :
       requests' = [requests EXCEPT ![q] =
                      CASE body.kind = "notJson" -> [@ EXCEPT !.pc = "done", !.response = 500]
                        [] body.kind = "invalid" -> [@ EXCEPT !.pc = "done", !.response = 400]
                        [] body.kind = "ok" ->
                             [@ EXCEPT !.pc = "lookup", !.reportId = body.reportId]]
  /\ UNCHANGED <<reports, prevStatus, att, replies, writers, review, recorder, pdf>>

\* the route's findUnique settles; for a row that exists processReport is
\* called without being awaited and the acknowledgment is returned
TriggerLookup(q) ==
  /\ requests[q].pc = "lookup"
  /\ \E a \in Attempts : att[a].pc = "idle"
  /\ \E dbOk \in BOOLEAN, envOk \in BOOLEAN :
       LET id == requests[q].reportId
           found == Exists(id)
       IN  IF ~dbOk
           THEN /\ requests' = [requests EXCEPT ![q] =
                                  [@ EXCEPT !.pc = "done", !.response = 500]]
                /\ att' = att
           ELSE /\ requests' = [requests EXCEPT ![q] =
                                  [@ EXCEPT !.pc = "done",
                                            !.response = IF found THEN 200 ELSE 404,
                                            !.started = IF StartsProcessing(found)
                                                        THEN NextAttempt ELSE "none"]]
                /\ att' = IF StartsProcessing(found)
                          THEN Begin(NextAttempt, id, envOk)
                          ELSE att
  /\ UNCHANGED <<reports, prevStatus, replies, writers, review, recorder, pdf>>

NextTrigger ==
  \/ \E q \in Requests :
       \/ Post(q)
       \/ TriggerLookup(q)
  \/ \E a \in Attempts :
       \/ Lookup(a)
       \/ MarkProcessing(a)
       \/ Audio(a)
       \/ Transcribe(a)
       \/ Extract(a)
       \/ MarkReady(a)
       \/ Catch(a)

SpecTrigger == Init /\ [][NextTrigger]_vars

\* ------------------------------------------------------------------------
\* The upload route: POST /api/upload
\* ------------------------------------------------------------------------

\* request bodies: not JSON, JSON that uploadRequestSchema rejects, and a
\* file name with its type
UploadBodies == {"notJson", "invalid", "ok"}

ReportOrder == <<"r1", "r2">>

\* the id the store gives the next row it creates
FreshId ==
  CHOOSE id \in ReportIds :
    /\ ~Exists(id)
    /\ \A i \in 1..Len(ReportOrder) :
         ReportOrder[i] = id => \A j \in 1..(i - 1) : Exists(ReportOrder[j])

\* prisma.dailyReport.create
Created(id, row) == [i \in DOMAIN reports \cup {id} |-> IF i = id THEN row ELSE reports[i]]

\* the body is read and checked, then the storage configuration; then the
\* row creation is issued
UploadPost(q) ==
  /\ requests[q].pc = "idle"
  /\ \A i \in 1..Len(RequestOrder) :
       RequestOrder[i] = q => \A j \in 1..(i - 1) : requests[RequestOrder[j]].pc # "idle"
  /\ \E body \in UploadBodies, envOk \in BOOLEAN :
       requests' = [requests EXCEPT ![q] =
                      CASE body = "notJson" ->
                             [@ EXCEPT !.pc = "done", !.response = 400,
                                       !.error = "InvalidJson"]
                        [] body = "invalid" ->
                             [@ EXCEPT !.pc = "done", !.response = 400,
                                       !.error = "InvalidPayload"]
                        [] body = "ok" /\ ~envOk ->
                             [@ EXCEPT !.pc = "done", !.response = 500,
                                       !.error = "MissingConfig"]
                        [] body = "ok" /\ envOk -> [@ EXCEPT !.pc = "create"]]
  /\ UNCHANGED <<reports, prevStatus, att, replies, writers, review, recorder, pdf>>

\* prisma.dailyReport.create settles; then the URL signing is issued
UploadCreate(q) ==
  /\ requests[q].pc = "create"
  /\ \E id \in ReportIds : ~Exists(id)
  /\ \E dbOk \in BOOLEAN :
       IF dbOk
       THEN /\ reports' = Created(FreshId, UploadCreated(FreshId))
            /\ requests' = [requests EXCEPT ![q] =
                              [@ EXCEPT !.pc = "sign", !.reportId = FreshId]]
       ELSE /\ requests' = [requests EXCEPT ![q] =
                              [@ EXCEPT !.pc = "done", !.response = 500,
                                        !.error = "CreateFailed"]]
            /\ UNCHANGED reports
  /\ UNCHANGED <<prevStatus, att, replies, writers, review, recorder, pdf>>

\* getSignedUrl settles; the signed URL and the report id are returned
UploadSign(q) ==
  /\ requests[q].pc = "sign"
  /\ \E ok \in BOOLEAN :
       requests' = [requests EXCEPT ![q] =
                      IF ok
                      THEN [@ EXCEPT !.pc = "done", !.response = 200,
                                     !.returned = requests[q].reportId]
                      ELSE [@ EXCEPT !.pc = "done", !.response = 500,
                                     !.error = "SignFailed"]]
  /\ UNCHANGED <<reports, prevStatus, att, replies, writers, review, recorder, pdf>>

\* an empty table, filled by upload requests; one invocation of
\* processReport runs beside them
InitUpload ==
  /\ reports = [id \in {} |-> NoRow]
  /\ prevStatus = [id \in ReportIds |-> "NONE"]
  /\ att = [a \in Attempts |-> IdleAttempt]
  /\ replies = "sample"
  /\ writers = [id \in ReportIds |-> NoWriter]
  /\ requests = [q \in Requests |-> IdleRequest]
  /\ review = ClosedReview
  /\ recorder = IdleRecorder
  /\ pdf = IdlePdf

NextUpload ==
  \/ \E q \in Requests :
       \/ UploadPost(q)
       \/ UploadCreate(q)
       \/ UploadSign(q)
  \/ \E a \in {"a1"} :
       \/ Invoke(a)
       \/ Lookup(a)
       \/ MarkProcessing(a)
       \/ Audio(a)
       \/ Transcribe(a)
       \/ Extract(a)
       \/ MarkReady(a)
       \/ Catch(a)

SpecUpload == InitUpload /\ [][NextUpload]_vars

\* ------------------------------------------------------------------------
\* The review client of /reports/[id]
\* ------------------------------------------------------------------------

\* variant: only a row that is being processed is polled
IsProcessingOnlyWhenProcessing(status) == status = PROCESSING

\* initialReport.status !== "READY" && initialReport.status !== "FAILED"
IsProcessing(status) == status # READY /\ status # FAILED

\* the page is rendered from the row and the client mounts: the effect sets
\* the interval when isProcessing
ReviewOpen ==
  /\ ~review.open
  /\ \E id \in DOMAIN reports :
       review' = [open |-> TRUE, reportId |-> id, status |-> reports[id].status,
                  interval |-> IsProcessing(reports[id].status),
                  pending |-> FALSE, refreshes |-> 0]
  /\ UNCHANGED <<reports, prevStatus, att, replies, writers, requests, recorder, pdf>>

\* the interval fires: router.refresh()
ReviewTick ==
  /\ review.interval
  /\ review' = [review EXCEPT !.pending = TRUE,
                              !.refreshes = IF @ < MaxRefreshes THEN @ + 1 ELSE @]
  /\ UNCHANGED <<reports, prevStatus, att, replies, writers, requests, recorder, pdf>>

\* a refresh settles: the page is rendered again from the row, and the
\* effect clears the interval when isProcessing turned false (sets it when
\* it turned true)
ReviewRefreshed ==
  /\ review.pending
  /\ \E ok \in BOOLEAN :
       review' = IF ok
                 THEN [review EXCEPT
                         !.pending = FALSE,
                         !.status = reports[review.reportId].status,
                         !.interval = IsProcessing(reports[review.reportId].status)]
                 ELSE [review EXCEPT !.pending = FALSE]
  /\ UNCHANGED <<reports, prevStatus, att, replies, writers, requests, recorder, pdf>>

\* the review page of a report beside one invocation of processReport
NextReview ==
  \/ ReviewOpen
  \/ ReviewTick
  \/ ReviewRefreshed
  \/ \E a \in {"a1"} :
       \/ Invoke(a)
       \/ Lookup(a)
       \/ MarkProcessing(a)
       \/ Audio(a)
       \/ Transcribe(a)
       \/ Extract(a)
       \/ MarkReady(a)
       \/ Catch(a)

SpecReview == Init /\ [][NextReview]_vars

\* ------------------------------------------------------------------------
\* The recorder component
\* ------------------------------------------------------------------------

RecorderFrame ==
  UNCHANGED <<reports, prevStatus, att, replies, writers, requests, review, pdf>>

\* resetSession: the tracks are stopped, the reference and the chunks dropped
resetSession(c) == [c EXCEPT !.mediaRecorderRef = 0, !.chunks = FALSE]

\* variant: a failed upload leaves the status as it is
UploadFailedKeepsStatus(c, i, why) ==
  [c EXCEPT !.errorMessage = TRUE, !.mediaRecorderRef = 0,
            !.rec[i].onstop = "done", !.rec[i].outcome = why]

\* variant: processing is triggered for a failed upload too
UploadFailedStillTriggers(c, i, why) ==
  [c EXCEPT !.status = "idle", !.errorMessage = TRUE, !.mediaRecorderRef = 0,
            !.rec[i].onstop = "done", !.rec[i].outcome = why,
            !.rec[i].triggers = @ + 1]

\* the catch and finally clauses of onstop
UploadFailed(c, i, why) ==
  [c EXCEPT !.status = "idle", !.errorMessage = TRUE, !.mediaRecorderRef = 0,
            !.rec[i].onstop = "done", !.rec[i].outcome = why]

\* triggerReportProcessing, setStatus("success"), router.push, then finally
Uploaded(c, i) ==
  [c EXCEPT !.status = "success", !.mediaRecorderRef = 0,
            !.rec[i].onstop = "done", !.rec[i].outcome = "uploaded",
            !.rec[i].triggers = @ + 1]

\* the recorder stops: the user agent queues dataavailable and stop
Stopped(r) == [r EXCEPT !.state = "inactive", !.dataPending = TRUE, !.stopPending = TRUE]

\* startRecording up to its await: nothing when busy; the error message and
\* the chunks are cleared and the microphone is asked for
StartRecording ==
  /\ recorder.status \notin {"recording", "uploading"}
  /\ recorder.started < MaxRecordings
  /\ LET i == recorder.started + 1
     IN  recorder' = [recorder EXCEPT !.errorMessage = FALSE, !.chunks = FALSE,
                                      !.started = i, !.rec[i].state = "asking"]
  /\ RecorderFrame

\* getUserMedia settles: the MediaRecorder is constructed and started and
\* the status becomes recording, or the catch clause resets the session
MediaGranted(i) ==
  /\ recorder.rec[i].state = "asking"
  /\ \E ok \in BOOLEAN :
       recorder' =
         IF ok
         THEN [recorder EXCEPT !.status = "recording", !.mediaRecorderRef = i,
                               !.rec[i].state = "recording"]
         ELSE [resetSession(recorder) EXCEPT !.status = "idle", !.errorMessage = TRUE,
                                             !.rec[i].state = "refused"]
  /\ RecorderFrame

\* stopAndUpload: nothing without a recorder or when not recording; else the
\* status becomes uploading and a recorder that is not inactive is stopped
StopAndUpload ==
  /\ recorder.mediaRecorderRef # 0
  /\ recorder.status = "recording"
  /\ LET i == recorder.mediaRecorderRef
         r == [recorder.rec[i] EXCEPT
                 !.requested = TRUE,
                 !.stoppedInactive = recorder.rec[i].state = "inactive"]
     IN  recorder' = [recorder EXCEPT
                        !.status = "uploading",
                        !.rec[i] = IF r.state # "inactive" THEN Stopped(r) ELSE r]
  /\ RecorderFrame

\* the tracks of the stream end and the user agent stops the recorder
TracksEnded(i) ==
  /\ recorder.rec[i].state = "recording"
  /\ recorder' = [recorder EXCEPT !.rec[i] = Stopped(@)]
  /\ RecorderFrame

\* recording fails in the user agent: the recorder is inactive and an error
\* event is queued, with or without the dataavailable and stop events
RecordingError(i) ==
  /\ recorder.rec[i].state = "recording"
  /\ \E stopFollows \in BOOLEAN :
       recorder' = [recorder EXCEPT
                      !.rec[i] = [(IF stopFollows THEN Stopped(@) ELSE @) EXCEPT
                                    !.state = "inactive", !.errorPending = TRUE]]
  /\ RecorderFrame

\* recorder.onerror
OnError(i) ==
  /\ recorder.rec[i].errorPending
  /\ recorder' = [resetSession(recorder) EXCEPT
                    !.status = "idle", !.errorMessage = TRUE,
                    !.rec[i].errorPending = FALSE]
  /\ RecorderFrame

\* recorder.ondataavailable: data of size 0 is dropped
OnDataAvailable(i) ==
  /\ recorder.rec[i].dataPending
  /\ ~recorder.rec[i].errorPending
  /\ \E hasData \in BOOLEAN :
       recorder' = [recorder EXCEPT !.chunks = @ \/ hasData,
                                    !.rec[i].dataPending = FALSE]
  /\ RecorderFrame

\* recorder.onstop up to its first await: the blob is taken from the chunks;
\* an empty blob throws, else uploadAudio issues the upload-session request
OnStop(i) ==
  /\ recorder.rec[i].stopPending
  /\ ~recorder.rec[i].dataPending
  /\ ~recorder.rec[i].errorPending
  /\ LET c == [recorder EXCEPT !.chunks = FALSE, !.rec[i].stopPending = FALSE]
     IN  recorder' = IF ~recorder.chunks THEN UploadFailed(c, i, "empty")
                     ELSE [c EXCEPT !.rec[i].onstop = "session"]
  /\ RecorderFrame

\* the upload-session request settles; a response that is ok and parses is
\* followed by the PUT of the audio
SessionSettled(i) ==
  /\ recorder.rec[i].onstop = "session"
  /\ \E res \in {"ok", "notOk", "invalid", "rejected"} :
       recorder' = IF res = "ok" THEN [recorder EXCEPT !.rec[i].onstop = "put"]
                   ELSE UploadFailed(recorder, i, "sessionFailed")
  /\ RecorderFrame

\* the PUT settles; when it is ok processing is triggered
PutSettled(i) ==
  /\ recorder.rec[i].onstop = "put"
  /\ \E res \in {"ok", "notOk", "rejected"} :
       recorder' = IF res = "ok" THEN Uploaded(recorder, i)
                   ELSE UploadFailed(recorder, i, "putFailed")
  /\ RecorderFrame

NextRecorder ==
  \/ StartRecording
  \/ StopAndUpload
  \/ \E i \in Recordings :
       \/ MediaGranted(i)
       \/ TracksEnded(i)
       \/ RecordingError(i)
       \/ OnError(i)
       \/ OnDataAvailable(i)
       \/ OnStop(i)
       \/ SessionSettled(i)
       \/ PutSettled(i)

SpecRecorder == Init /\ [][NextRecorder]_vars

\* queued events are dispatched and issued requests settle
FairRecorder ==
  /\ SpecRecorder
  /\ \A i \in Recordings :
       /\ WF_vars(OnError(i))
       /\ WF_vars(OnDataAvailable(i))
       /\ WF_vars(OnStop(i))
       /\ WF_vars(SessionSettled(i))
       /\ WF_vars(PutSettled(i))

\* ------------------------------------------------------------------------
\* The PDF route: POST /api/generate-pdf
\* ------------------------------------------------------------------------

PdfFrame ==
  UNCHANGED <<reports, prevStatus, att, replies, writers, requests, review, recorder>>

PdfBodies == {"notJson", "invalid", "ok"}

\* variant: the browser is closed only after a rendering that succeeded
AfterRenderClosesOnSuccess(r, res) ==
  IF res = "ok" THEN [r EXCEPT !.pc = "close", !.rendered = res]
  ELSE [r EXCEPT !.pc = "done", !.rendered = res, !.response = 500]

\* try { ...render... } finally { await browser.close() }
AfterRender(r, res) == [r EXCEPT !.pc = "close", !.rendered = res]

\* the body is read and checked, then the executable path; then the module
\* is imported and the browser launch issued
PdfPost(p) ==
  /\ pdf[p].pc = "idle"
  /\ \E body \in PdfBodies, pathSet \in BOOLEAN :
       LET r == [pdf[p] EXCEPT !.body = body, !.pathSet = pathSet]
       IN  pdf' = [pdf EXCEPT ![p] =
                     CASE body = "notJson" -> [r EXCEPT !.pc = "done", !.response = 500]
                       [] body = "invalid" -> [r EXCEPT !.pc = "done", !.response = 400]
                       [] body = "ok" /\ ~pathSet ->
                            [r EXCEPT !.pc = "done", !.response = 500]
                       [] body = "ok" /\ pathSet -> [r EXCEPT !.pc = "launch"]]
  /\ PdfFrame

\* the import and puppeteer.launch settle
PdfLaunch(p) ==
  /\ pdf[p].pc = "launch"
  /\ \E ok \in BOOLEAN :
       pdf' = [pdf EXCEPT ![p] =
                 IF ok THEN [@ EXCEPT !.pc = "render", !.browser = "open"]
                 ELSE [@ EXCEPT !.pc = "done", !.response = 500]]
  /\ PdfFrame

\* newPage, setContent and page.pdf settle or one of them throws; the
\* finally clause then issues browser.close()
PdfRender(p) ==
  /\ pdf[p].pc = "render"
  /\ \E res \in {"ok", "throws"} :
       pdf' = [pdf EXCEPT ![p] = AfterRender(@, res)]
  /\ PdfFrame

\* browser.close() settles: the PDF is returned after a rendering that
\* succeeded; a rendering error or a rejected close reaches the outer catch
PdfClose(p) ==
  /\ pdf[p].pc = "close"
  /\ \E ok \in BOOLEAN :
       pdf' = [pdf EXCEPT ![p] =
                 [@ EXCEPT !.pc = "done",
                           !.closeCalls = @ + 1,
                           !.closeFailed = ~ok,
                           !.browser = IF ok THEN "closed" ELSE "open",
                           !.response = IF ok /\ pdf[p].rendered = "ok" THEN 200
                                        ELSE 500]]
  /\ PdfFrame

NextPdf ==
  \E p \in PdfRequests :
    \/ PdfPost(p)
    \/ PdfLaunch(p)
    \/ PdfRender(p)
    \/ PdfClose(p)

SpecPdf == Init /\ [][NextPdf]_vars

\* one invocation on a row whose storage key ranges over FileKeys
InitMime ==
  /\ \E key \in FileKeys :
       reports = [id \in ReportIds |->
                    IF id = "r1" THEN [UploadCreated(id) EXCEPT !.file_key = key]
                    ELSE TestCreated(id)]
  /\ prevStatus = [id \in ReportIds |-> "NONE"]
  /\ att = [a \in Attempts |-> IdleAttempt]
  /\ replies = "sample"
  /\ writers = [id \in ReportIds |-> NoWriter]
  /\ requests = [q \in Requests |-> IdleRequest]
  /\ review = ClosedReview
  /\ recorder = IdleRecorder
  /\ pdf = IdlePdf

NextMime ==
  \E a \in {"a1"} :
    \/ Invoke(a)
    \/ Lookup(a)
    \/ MarkProcessing(a)
    \/ Audio(a)
    \/ Transcribe(a)
    \/ Extract(a)
    \/ MarkReady(a)
    \/ Catch(a)

SpecMime == InitMime /\ [][NextMime]_vars

\* what an earlier successful invocation with the sample transcript left
EarlierExtracted == normalizeExtracted(extractedSchemaValue(JObj(Bodies["B"])))

EarlierMarkdown(id) == buildMarkdown(id, SAMPLE_TRANSCRIPT, EarlierExtracted)

\* rows after earlier invocations: r1 processed successfully and then failed
\* on a second run, r2 failed on its first run
ResubmitRows ==
  [id \in ReportIds |->
     IF id = "r1"
     THEN FailedData(ProcessingData(
            ReadyData(ProcessingData(UploadCreated(id)), SAMPLE_TRANSCRIPT,
                      EarlierExtracted, EarlierMarkdown(id))))
     ELSE FailedData(ProcessingData(TestCreated(id)))]

\* one invocation on rows that were processed before
InitResubmit ==
  /\ reports = ResubmitRows
  /\ prevStatus = [id \in ReportIds |-> PROCESSING]
  /\ att = [a \in Attempts |-> IdleAttempt]
  /\ replies = "sample"
  /\ writers = [id \in ReportIds |-> NoWriter]
  /\ requests = [q \in Requests |-> IdleRequest]
  /\ review = ClosedReview
  /\ recorder = IdleRecorder
  /\ pdf = IdlePdf

NextResubmit ==
  \E a \in {"a1"} :
    \/ Invoke(a)
    \/ Lookup(a)
    \/ MarkProcessing(a)
    \/ Audio(a)
    \/ Transcribe(a)
    \/ Extract(a)
    \/ MarkReady(a)
    \/ Catch(a)

SpecResubmit == InitResubmit /\ [][NextResubmit]_vars

\* one invocation whose model reply ranges over the JSON documents
InitSchema ==
  /\ reports = [id \in ReportIds |->
                  IF id = "r1" THEN UploadCreated(id) ELSE TestCreated(id)]
  /\ prevStatus = [id \in ReportIds |-> "NONE"]
  /\ att = [a \in Attempts |-> IdleAttempt]
  /\ replies = "documents"
  /\ writers = [id \in ReportIds |-> NoWriter]
  /\ requests = [q \in Requests |-> IdleRequest]
  /\ review = ClosedReview
  /\ recorder = IdleRecorder
  /\ pdf = IdlePdf

NextSchema ==
  \E a \in {"a1"} :
    \/ Invoke(a)
    \/ Lookup(a)
    \/ MarkProcessing(a)
    \/ Audio(a)
    \/ Transcribe(a)
    \/ Extract(a)
    \/ MarkReady(a)
    \/ Catch(a)

SpecSchema == InitSchema /\ [][NextSchema]_vars

\* ------------------------------------------------------------------------
\* Properties
\* ------------------------------------------------------------------------

Range(s) == {s[i] : i \in 1..Len(s)}

ContentOf(row) == <<row.transcript_text, row.extracted_json, row.markdown_content>>

Done(a) == att[a].pc = "done"

\* errors raised by a pipeline step (retrieval, transcription, extraction,
\* parsing, validation)
PipelineStepErrors ==
  {"R2ConfigError", "RetrievalError", "TranscriptionError", "EmptyTranscript",
   "ExtractionError", "NoContent", "InvalidJson", "ValidationError"}

\* C1: whenever a row is READY its extracted_json is a normalised extraction
\* (not null, not the upload placeholder), its markdown_content is non-empty,
\* and the three content columns are exactly the bundle of one invocation
\* that wrote READY: READY is only written together with the content.
C1_ReadyHasContent ==
  \A id \in DOMAIN reports :
    reports[id].status = READY =>
      /\ reports[id].extracted_json.t = "extracted"
      /\ reports[id].markdown_content # <<>>
      /\ \E a \in Attempts :
           /\ att[a].reportId = id
           /\ READY \in Range(att[a].writes)
           /\ ContentOf(reports[id]) =
                <<att[a].transcriptText, att[a].extractedJson, att[a].markdownContent>>

C1_Witness ==
  \E id \in DOMAIN reports :
    /\ reports[id].status = READY
    /\ \E a, b \in Attempts :
         /\ att[a].reportId = id /\ Done(a) /\ att[a].writes = <<PROCESSING, READY>>
         /\ att[b].reportId = id /\ Done(b) /\ att[b].writes = <<PROCESSING, FAILED>>

\* C2 as stated: when an invocation on an existing row, with no other
\* invocation in flight during it, fails at a pipeline step, then at its
\* completion the status is FAILED, the caught error is the one rethrown and
\* the content columns equal their values at the start of the invocation.
C2_FailedAttemptEndsFailed ==
  [][\A a \in Attempts :
       ( /\ att[a].pc = "catch"
         /\ att'[a].pc = "done"
         /\ ~att'[a].overlapped
         /\ Exists(att[a].reportId)
         /\ att[a].err \in PipelineStepErrors )
       => /\ reports'[att[a].reportId].status = FAILED
          /\ att'[a].thrown = att[a].err
          /\ ContentOf(reports'[att[a].reportId]) = ContentOf(att[a].pre)]_vars

\* C2 amended: in the same situation the caught error is the one rethrown
\* and the content columns equal their values at the start of the
\* invocation; the status is FAILED when the store applied the best-effort
\* FAILED update, and PROCESSING (the last applied update) when it rejected it.
C2_FailedAttemptKeepsContent ==
  [][\A a \in Attempts :
       ( /\ att[a].pc = "catch"
         /\ att'[a].pc = "done"
         /\ ~att'[a].overlapped
         /\ Exists(att[a].reportId)
         /\ att[a].err \in PipelineStepErrors )
       => /\ att'[a].thrown = att[a].err
          /\ ContentOf(reports'[att[a].reportId]) = ContentOf(att[a].pre)
          /\ reports'[att[a].reportId].status =
               IF att'[a].swallowed THEN PROCESSING ELSE FAILED]_vars

C2_Witness ==
  \E a \in Attempts :
    /\ Done(a)
    /\ ~att[a].overlapped
    /\ att[a].err = "InvalidJson"
    /\ att[a].thrown = "InvalidJson"
    /\ att[a].pre.status = READY
    /\ Exists(att[a].reportId)
    /\ reports[att[a].reportId].status = FAILED
    /\ reports[att[a].reportId].extracted_json.t = "extracted"

\* C3 as stated: no step changes a row's status from READY to PROCESSING.
C3_NeverReadyToProcessing ==
  [][\A id \in DOMAIN reports :
       ~(reports[id].status = READY /\ reports'[id].status = PROCESSING)]_vars

\* C3 amended: a status change never leads back to UPLOADING (or to DRAFT),
\* and never leads from UPLOADING straight to READY; re-invocation on a READY
\* row does take it back to PROCESSING.
C3_NeverBackToUploading ==
  [][\A id \in DOMAIN reports :
       reports'[id].status # reports[id].status =>
         /\ reports'[id].status \in {PROCESSING, READY, FAILED}
         /\ ~(reports[id].status = UPLOADING /\ reports'[id].status = READY)]_vars

C3_Witness ==
  \E id \in DOMAIN reports :
    prevStatus[id] = READY /\ reports[id].status = PROCESSING

\* C4: an invocation for an id that has no row changes no row at any of its
\* steps, creates no row, applies no update, and ends by throwing: the
\* not-found error once the lookup has answered (an environment or lookup
\* failure before that surfaces as itself).
C4_MissingRecordNoMutation ==
  [][\A a \in Attempts :
       ( /\ att'[a].reportId = MissingId
         /\ att'[a].pc # "idle"
         /\ att'[a] # att[a] )
       => /\ reports' = reports
          /\ DOMAIN reports' = ReportIds
          /\ att'[a].writes = <<>>
          /\ att'[a].pc \notin {"markProcessing", "audio", "transcribe",
                                "extract", "markReady"}
          /\ att'[a].pc = "done" =>
               att'[a].thrown \in {"NotFound", "ConfigError", "LookupError"}]_vars

C4_Witness ==
  \E a \in Attempts :
    /\ Done(a)
    /\ att[a].reportId = MissingId
    /\ att[a].thrown = "NotFound"
    /\ att[a].swallowed
    /\ \E id \in DOMAIN reports : reports[id].status = READY

\* C5 as stated: the first update an invocation applies is the PROCESSING
\* one, so no READY or FAILED update of an invocation is applied before its
\* own PROCESSING update.
C5_ProcessingWrittenFirst ==
  \A a \in Attempts :
    att[a].writes # <<>> => att[a].writes[1] = PROCESSING

C7_SecondaryFailureSwallowed ==
  \A a \in Attempts :
    (Done(a) /\ att[a].swallowed) =>
      /\ att[a].thrown = att[a].err
      /\ att[a].thrown # "FailedWriteError"
      /\ att[a].thrown # "none"

C7_Witness ==
  \E a \in Attempts :
    /\ Done(a)
    /\ att[a].swallowed
    /\ Exists(att[a].reportId)
    /\ att[a].writes = <<PROCESSING>>
    /\ att[a].thrown = "TranscriptionError"

\* C8 as stated: an invocation that was given a transcript override, whatever
\* its value, never calls audio retrieval or transcription.
C8_OverrideSkipsAdapters ==
  \A a \in Attempts :
    att[a].override.given =>
      "audio" \notin Range(att[a].calls) /\ "transcribe" \notin Range(att[a].calls)

\* C9 as stated: when the transcript text, returned by the transcription or
\* supplied as the override, is empty after trimming, the invocation fails:
\* it never calls the extraction adapter and never writes READY.
C9_EmptyTranscriptFails ==
  \A a \in Attempts :
    ( \/ att[a].override.given /\ Trim(att[a].override.text) = <<>>
      \/ att[a].obtained.has /\ Trim(att[a].obtained.text) = <<>> )
    => /\ "extract" \notin Range(att[a].calls)
       /\ READY \notin Range(att[a].writes)
       /\ Done(a) => att[a].thrown # "none"

C10_HasBracePair(t) ==
  \E i \in 1..Len(t) : \E j \in (i + 1)..Len(t) : t[i] = "{" /\ t[j] = "}"

C10_Slice(t) ==
  LET i == CHOOSE i \in 1..Len(t) : t[i] = "{" /\ \A k \in 1..(i - 1) : t[k] # "{"
      j == CHOOSE j \in 1..Len(t) : t[j] = "}" /\ \A k \in (j + 1)..Len(t) : t[k] # "}"
  IN  SubSeq(t, i, j)

C10_Expected(raw) ==
  IF JsonParse(Trim(raw)).ok THEN JsonParse(Trim(raw))
  ELSE IF C10_HasBracePair(Trim(raw)) THEN JsonParse(C10_Slice(Trim(raw)))
  ELSE [ok |-> FALSE, value |-> JUndef]

\* C10 as stated: after the extraction adapter has answered, the value
\* handed to validation is the direct parse of the trimmed text when that
\* parses, otherwise the parse of the text from the first "{" to the last "}"
\* when a "{" is followed later by a "}"; when neither parses, or there is
\* no content, the invocation fails and the row is FAILED; a valid object,
\* bare or wrapped in prose, takes the row to READY.
C10_ParseOutcomeAlwaysStored ==
  \A a \in Attempts :
    (att[a].reply \in {"null", "content"}) =>
      LET id == att[a].reportId
          expected == C10_Expected(att[a].raw)
      IN  IF att[a].reply = "null" \/ att[a].raw = <<>> \/ ~expected.ok
          THEN /\ att[a].err \in {"NoContent", "InvalidJson"}
               /\ Done(a) => reports[id].status = FAILED
          ELSE IF extractedSchemaOk(expected.value)
          THEN Done(a) => reports[id].status = READY
          ELSE att[a].err = "ValidationError"

\* C10 amended: the same parsing rule; when neither parse succeeds, or there
\* is no content, the invocation rethrows that error, never writes READY, and
\* the row is FAILED provided the store applied the FAILED update; a valid
\* object, bare or wrapped in prose, is normalised and the row becomes READY
\* with that value provided the store applied the READY update.
C10_ParseOutcome ==
  \A a \in Attempts :
    (att[a].reply \in {"null", "content"}) =>
      LET id == att[a].reportId
          expected == C10_Expected(att[a].raw)
      IN  IF att[a].reply = "null" \/ att[a].raw = <<>> \/ ~expected.ok
          THEN /\ att[a].err =
                    IF att[a].reply = "null" \/ att[a].raw = <<>>
                    THEN "NoContent" ELSE "InvalidJson"
               /\ READY \notin Range(att[a].writes)
               /\ Done(a) =>
                    /\ att[a].thrown = att[a].err
                    /\ reports[id].status =
                         IF att[a].swallowed THEN PROCESSING ELSE FAILED
          ELSE IF extractedSchemaOk(expected.value)
          THEN /\ att[a].extractedJson =
                    normalizeExtracted(extractedSchemaParse(expected.value).value)
               /\ att[a].err \in {"none", "ReadyWriteError"}
               /\ (Done(a) /\ att[a].err = "none") =>
                    /\ reports[id].status = READY
                    /\ reports[id].extracted_json = att[a].extractedJson
          ELSE att[a].err = "ValidationError"

C10_Witness ==
  \E a \in Attempts :
    /\ Done(a)
    /\ att[a].raw = <<"x", "{", "B", "}", "x">>
    /\ reports[att[a].reportId].status = READY
    /\ reports[att[a].reportId].extracted_json.workPerformed[1].subcontractor
         = JStr(<<"Southern Masonry">>)

\* the value the reply of invocation a parsed to
ReplyValue(a) == parseJsonObject(att[a].raw).value

\* invocation a received a reply that parsed as JSON
ReplyParsed(a) ==
  att[a].reply = "content" /\ att[a].raw # <<>> /\ parseJsonObject(att[a].raw).ok

\* invocation a validated, normalised and rendered its reply
Rendered(a) == att[a].extractedJson.t = "extracted"

\* C11 as stated: a reply that parses as JSON but is not an object at the
\* top level is a validation failure, the invocation ends with the row
\* FAILED, and the row's extracted_json and markdown_content are untouched.
C11_NonObjectEndsFailed ==
  \A a \in Attempts :
    (ReplyParsed(a) /\ ReplyValue(a).t # "obj") =>
      /\ att[a].err = "ValidationError"
      /\ ~Rendered(a)
      /\ Done(a) =>
           /\ reports[att[a].reportId].status = FAILED
           /\ ContentOf(reports[att[a].reportId]) = ContentOf(att[a].pre)

\* C11 amended: such a reply is a validation failure: the invocation
\* rethrows the validation error, never writes READY, leaves the content
\* columns untouched, and the row is FAILED provided the store applied the
\* FAILED update (PROCESSING when it rejected it).
C11_NonObjectIsValidationFailure ==
  \A a \in Attempts :
    (ReplyParsed(a) /\ ReplyValue(a).t # "obj") =>
      /\ att[a].err = "ValidationError"
      /\ ~Rendered(a)
      /\ READY \notin Range(att[a].writes)
      /\ Done(a) =>
           /\ att[a].thrown = "ValidationError"
           /\ reports[att[a].reportId].status =
                IF att[a].swallowed THEN PROCESSING ELSE FAILED
           /\ ContentOf(reports[att[a].reportId]) = ContentOf(att[a].pre)

C11_Witness ==
  \E a \in Attempts :
    /\ Done(a)
    /\ att[a].raw = <<DocumentToken(JArr(<<JObj(WorkFull)>>))>>
    /\ att[a].thrown = "ValidationError"
    /\ reports[att[a].reportId].status = FAILED
    /\ ContentOf(reports[att[a].reportId]) = ContentOf(att[a].pre)

C12_KnownKeys == {"workPerformed", "deliveries", "delays", "safetyNotes"}

\* the stored field for an input field: the input value when present and
\* not null, null otherwise
C12_Scalar(entry, key) ==
  IF key \in DOMAIN entry /\ entry[key].t # "null" THEN entry[key] ELSE JNull

C12_Entries(o, key) == IF key \in DOMAIN o THEN o[key].a ELSE <<>>

\* C12: a reply object with any subset of the four members absent, any
\* subset of the entry fields absent and unknown extra members passes
\* validation; in the normalised value every absent collection is the empty
\* sequence, every absent scalar is null, every present string is kept, and
\* only the declared members and fields occur; that value is what a READY
\* update stores.
C12_DefaultsApplied ==
  \A a \in Attempts :
    (ReplyParsed(a) /\ ReplyValue(a) \in PartialDocuments \cup PartialEntryDocuments) =>
      LET o == ReplyValue(a).o
          e == att[a].extractedJson
      IN  /\ att[a].err \in {"none", "ReadyWriteError"}
          /\ Rendered(a)
          /\ DOMAIN e = C12_KnownKeys \cup {"t"}
          /\ Len(e.workPerformed) = Len(C12_Entries(o, "workPerformed"))
          /\ Len(e.deliveries) = Len(C12_Entries(o, "deliveries"))
          /\ Len(e.delays) = Len(C12_Entries(o, "delays"))
          /\ \A i \in 1..Len(e.workPerformed) :
               /\ DOMAIN e.workPerformed[i] = {"subcontractor", "task", "crewSize"}
               /\ \A k \in {"subcontractor", "task"} :
                    e.workPerformed[i][k] = C12_Scalar(o.workPerformed.a[i].o, k)
               /\ "crewSize" \notin DOMAIN o.workPerformed.a[i].o =>
                    e.workPerformed[i].crewSize = JNull
          /\ \A i \in 1..Len(e.deliveries) :
               /\ DOMAIN e.deliveries[i] = {"material", "status"}
               /\ \A k \in {"material", "status"} :
                    e.deliveries[i][k] = C12_Scalar(o.deliveries.a[i].o, k)
          /\ \A i \in 1..Len(e.delays) :
               /\ DOMAIN e.delays[i] = {"reason", "duration"}
               /\ \A k \in {"reason", "duration"} :
                    e.delays[i][k] = C12_Scalar(o.delays.a[i].o, k)
          /\ e.safetyNotes = C12_Scalar(o, "safetyNotes")
          /\ (Done(a) /\ att[a].err = "none") =>
               reports[att[a].reportId].extracted_json = e

C12_Witness ==
  \E a \in Attempts :
    /\ Done(a)
    /\ att[a].raw =
         <<DocumentToken(JObj(Extend(Restrict(FullDocument, {"deliveries"}),
                                     "weather", JStr(<<"sunny">>))))>>
    /\ reports[att[a].reportId].status = READY
    /\ reports[att[a].reportId].extracted_json.workPerformed = <<>>
    /\ reports[att[a].reportId].extracted_json.safetyNotes = JNull
    /\ Len(reports[att[a].reportId].extracted_json.deliveries) = 1

\* C13 as stated: a reply in which a string field other than crewSize holds
\* a number or a boolean passes validation: the invocation does not fail
\* with a validation error and the row does not become FAILED because of it.
C13_WrongTypedScalarAccepted ==
  \A a \in Attempts :
    (ReplyParsed(a) /\ ReplyValue(a) \in WrongTypedDocuments) =>
      /\ att[a].err # "ValidationError"
      /\ Rendered(a)

\* C14 as stated: whatever JSON type the crewSize of a workPerformed entry
\* has, the invocation does not fail because of it, and the normalised
\* crewSize is null or a non-negative integer.
C14_CrewSizeNeverFails ==
  \A a \in Attempts :
    (ReplyParsed(a) /\ ReplyValue(a) \in CrewSizeDocuments) =>
      /\ att[a].err # "ValidationError"
      /\ Rendered(a)
      /\ \/ att[a].extractedJson.workPerformed[1].crewSize = JNull
         \/ /\ att[a].extractedJson.workPerformed[1].crewSize.t = "num"
            /\ att[a].extractedJson.workPerformed[1].crewSize.n10 >= 0
            /\ att[a].extractedJson.workPerformed[1].crewSize.n10 % 10 = 0

\* the crew sizes named by the claim: input and normalised value
C15_Table ==
  {<<JStr(<<"4">>), JNum(40)>>,
   <<JNum(40), JNum(40)>>,
   <<JStr(<<"f", "o", "u", "r">>), JNull>>,
   <<JNum(-20), JNum(0)>>,
   <<JStr(<<"-", "2">>), JNum(0)>>}

\* C15: a reply whose crewSize is "4" or 4.0 normalises to 4, "four" to
\* null, and the number -2 and the string "-2" to 0; none of them fails
\* validation.
C15_CrewSizeNormalization ==
  \A a \in Attempts : \A row \in C15_Table :
    (ReplyParsed(a) /\ ReplyValue(a) = CrewSizeDocument(row[1])) =>
      /\ att[a].err \in {"none", "ReadyWriteError"}
      /\ Rendered(a)
      /\ att[a].extractedJson.workPerformed[1].crewSize = row[2]
      /\ (Done(a) /\ att[a].err = "none") =>
           reports[att[a].reportId].extracted_json.workPerformed[1].crewSize = row[2]

C15_Witness ==
  \E a \in Attempts :
    /\ Done(a)
    /\ att[a].raw = <<DocumentToken(CrewSizeDocument(JStr(<<"-", "2">>)))>>
    /\ reports[att[a].reportId].status = READY
    /\ reports[att[a].reportId].extracted_json.workPerformed[1].crewSize = JNum(0)

\* the lines of a rendered summary
RECURSIVE C16_Lines(_)
C16_Lines(md) ==
  IF IndexOf(md, "\n") = 0 THEN <<md>>
  ELSE <<SubSeq(md, 1, IndexOf(md, "\n") - 1)>>
         \o C16_Lines(SubSeq(md, IndexOf(md, "\n") + 1, Len(md)))

C16_Occurrences(L, line) == {i \in 1..Len(L) : L[i] = line}

C16_At(L, line) == CHOOSE i \in 1..Len(L) : L[i] = line

\* the table body of the section whose header is at line i: the lines after
\* the two heading lines of the table, up to the next empty line
C16_Body(L, i) ==
  LET end == CHOOSE j \in (i + 3)..Len(L) :
               L[j] = <<>> /\ \A k \in (i + 3)..(j - 1) : L[k] # <<>>
  IN  SubSeq(L, i + 3, end - 1)

C16_IsCellText(tok) == tok \notin {"| ", " | ", " |"}

C16_Text(v) ==
  IF v.t = "str" THEN v.s
  ELSE IF v.t = "num" THEN <<ToString(v.n10 \div 10)>>
  ELSE <<>>

C16_Headers ==
  << <<"## Work Performed">>, <<"## Deliveries">>, <<"## Delays">>,
     <<"## Safety Notes">>, <<"## Transcript">> >>

\* C16: every rendered summary starts with the report title and the Report
\* ID line, has each of the headers Work Performed, Deliveries, Delays,
\* Safety Notes, Transcript exactly once and in that order, and each of the
\* three tables has exactly the placeholder row when its collection is empty
\* and otherwise one row per entry, in input order, holding that entry's
\* values.
C16_SectionsInOrder ==
  \A a \in Attempts :
    Rendered(a) =>
      LET L == C16_Lines(att[a].markdownContent)
          e == att[a].extractedJson
          w == C16_At(L, C16_Headers[1])
          d == C16_At(L, C16_Headers[2])
          y == C16_At(L, C16_Headers[3])
      IN  /\ L[1] = <<"# DAILY CONSTRUCTION REPORT">>
          /\ L[3] = <<"- Report ID: ", att[a].reportId>>
          /\ \A h \in 1..Len(C16_Headers) :
               Cardinality(C16_Occurrences(L, C16_Headers[h])) = 1
          /\ 3 < C16_At(L, C16_Headers[1])
          /\ \A h \in 1..(Len(C16_Headers) - 1) :
               C16_At(L, C16_Headers[h]) < C16_At(L, C16_Headers[h + 1])
          /\ L[C16_At(L, C16_Headers[5]) + 1] = att[a].transcriptText
          /\ IF e.workPerformed = <<>> THEN C16_Body(L, w) = << <<"| | | |">> >>
             ELSE /\ Len(C16_Body(L, w)) = Len(e.workPerformed)
                  /\ \A i \in 1..Len(e.workPerformed) :
                       SelectSeq(C16_Body(L, w)[i], C16_IsCellText) =
                         C16_Text(e.workPerformed[i].subcontractor)
                           \o C16_Text(e.workPerformed[i].task)
                           \o C16_Text(e.workPerformed[i].crewSize)
          /\ IF e.deliveries = <<>> THEN C16_Body(L, d) = << <<"| | |">> >>
             ELSE /\ Len(C16_Body(L, d)) = Len(e.deliveries)
                  /\ \A i \in 1..Len(e.deliveries) :
                       SelectSeq(C16_Body(L, d)[i], C16_IsCellText) =
                         C16_Text(e.deliveries[i].material)
                           \o C16_Text(e.deliveries[i].status)
          /\ IF e.delays = <<>> THEN C16_Body(L, y) = << <<"| | |">> >>
             ELSE /\ Len(C16_Body(L, y)) = Len(e.delays)
                  /\ \A i \in 1..Len(e.delays) :
                       SelectSeq(C16_Body(L, y)[i], C16_IsCellText) =
                         C16_Text(e.delays[i].reason)
                           \o C16_Text(e.delays[i].duration)

C16_Witness ==
  \E a \in Attempts :
    /\ Done(a)
    /\ Rendered(a)
    /\ reports[att[a].reportId].status = READY
    /\ Len(att[a].extractedJson.workPerformed) = 3
    /\ Len(att[a].extractedJson.deliveries) = 2
    /\ att[a].extractedJson.delays = <<>>
    /\ reports[att[a].reportId].markdown_content = att[a].markdownContent
    /\ Len(C16_Body(C16_Lines(att[a].markdownContent),
                    C16_At(C16_Lines(att[a].markdownContent), C16_Headers[1]))) = 3

\* C17 as stated: the line under the Safety Notes header is the safetyNotes
\* text when that is non-empty, and "None" both when safetyNotes is null and
\* when it is the empty string.
C17_SafetyNotesPlaceholder ==
  \A a \in Attempts :
    Rendered(a) =>
      LET L == C16_Lines(att[a].markdownContent)
          notes == att[a].extractedJson.safetyNotes
      IN  L[C16_At(L, C16_Headers[4]) + 1] =
            IF notes.t = "null" \/ notes.s = <<>> THEN <<"None">> ELSE notes.s

C19_TriggerChecksThenDetaches ==
  [][/\ \A q \in Requests :
          /\ requests'[q] # requests[q] => reports' = reports
          /\ requests[q].response # 0 => requests'[q] = requests[q]
          /\ requests'[q].response \in {400, 404, 500} => requests'[q].started = "none"
          /\ requests'[q].response = 404 => ~Exists(requests'[q].reportId)
          /\ (requests[q].response = 0 /\ requests'[q].response = 200) =>
               /\ Exists(requests'[q].reportId)
               /\ requests'[q].started \in Attempts
               /\ att[requests'[q].started].pc = "idle"
               /\ att'[requests'[q].started].pc \in {"lookup", "catch"}
               /\ att'[requests'[q].started].reportId = requests'[q].reportId
               /\ att'[requests'[q].started].writes = <<>>
     /\ \A a \in Attempts :
          att'[a].pc # "idle" =>
            \E q \in Requests :
              /\ requests'[q].started = a
              /\ requests'[q].response = 200
              /\ requests'[q].reportId = att'[a].reportId
              /\ Exists(att'[a].reportId)]_vars

C19_Witness ==
  /\ requests["q1"].response = 200
  /\ requests["q1"].started = "a1"
  /\ Done("a1")
  /\ att["a1"].thrown = "TranscriptionError"
  /\ reports[att["a1"].reportId].status = FAILED
  /\ requests["q2"].response = 404
  /\ requests["q2"].started = "none"
  /\ att["a2"].pc = "idle"

Last(s) == s[Len(s)]

\* the content columns after the terminal update of invocation w, the other
\* invocation on the row being o: the bundle of w when w wrote READY; after
\* a FAILED update, which carries no content, the bundle o wrote earlier, or
\* the content the row had before both
C20_ContentLeft(w, o) ==
  IF Last(att[w].writes) = READY
    THEN <<att[w].transcriptText, att[w].extractedJson, att[w].markdownContent>>
  ELSE IF READY \in Range(att[o].writes)
    THEN <<att[o].transcriptText, att[o].extractedJson, att[o].markdownContent>>
  ELSE ContentOf(att[AttemptOrder[1]].pre)

EnvironmentErrors ==
  {"ConfigError", "LookupError", "ProcessingWriteError", "R2ConfigError",
   "RetrievalError", "TranscriptionError", "EmptyTranscript", "ExtractionError",
   "NoContent", "InvalidJson", "ValidationError", "ReadyWriteError"}

\* C21: an invocation for a row that exists is never refused, queued or
\* skipped because of the row's status or of another invocation in flight:
\* the trigger route answers 404 only for an id without a row, an invocation
\* fails only with an error of its environment, it proceeds past the lookup
\* and applies its own PROCESSING update even when the row is PROCESSING
\* already, and an invocation that completed without error ran audio
\* retrieval, transcription and extraction itself and wrote READY.
C21_NoMutualExclusion ==
  /\ \A q \in Requests :
       requests[q].response = 404 => ~Exists(requests[q].reportId)
  /\ \A a \in Attempts :
       (att[a].pc # "idle" /\ Exists(att[a].reportId)) =>
         /\ att[a].err \in EnvironmentErrors \cup {"none"}
         /\ (Done(a) /\ att[a].err = "none") =>
              /\ att[a].calls = <<"audio", "transcribe", "extract">>
              /\ att[a].writes = <<PROCESSING, READY>>
         /\ att[a].pc \in {"audio", "transcribe", "extract", "markReady"} =>
              att[a].writes = <<PROCESSING>>

C21_Witness ==
  /\ requests["q1"].response = 200
  /\ requests["q2"].response = 200
  /\ att["a1"].reportId = att["a2"].reportId
  /\ att["a2"].pre.status = PROCESSING
  /\ att["a1"].pc = "extract"
  /\ att["a2"].pc = "extract"
  /\ att["a1"].writes = <<PROCESSING>>
  /\ att["a2"].writes = <<PROCESSING>>
  /\ att["a1"].calls = <<"audio", "transcribe">>
  /\ att["a2"].calls = <<"audio", "transcribe">>

\* what invocation a rendered and hands to its READY update
Bundle(a) == <<att[a].transcriptText, att[a].extractedJson, att[a].markdownContent>>

\* C22: an invocation on a row that is READY runs the pipeline again: when it
\* completes without error it has called the extraction adapter (and audio
\* retrieval and transcription, unless a non-blank override replaced them)
\* and applied PROCESSING and READY, and, no update having been applied
\* after its own, the row is READY with exactly the new invocation's
\* transcript, extraction and summary in place of the earlier ones.
C22_NotIdempotent ==
  \A a \in Attempts :
    (Done(a) /\ att[a].pre.status = READY /\ att[a].err = "none") =>
      /\ att[a].calls =
           IF OverrideText(att[a].override) # <<>> THEN <<"extract">>
           ELSE <<"audio", "transcribe", "extract">>
      /\ att[a].writes = <<PROCESSING, READY>>
      /\ writers[att[a].reportId].last = a =>
           /\ reports[att[a].reportId].status = READY
           /\ ContentOf(reports[att[a].reportId]) = Bundle(a)

C22_Witness ==
  \E a \in Attempts :
    /\ Done(a)
    /\ att[a].pre.status = READY
    /\ att[a].pre.extracted_json.t = "extracted"
    /\ att[a].err = "none"
    /\ att[a].calls = <<"audio", "transcribe", "extract">>
    /\ writers[att[a].reportId].last = a
    /\ reports[att[a].reportId].status = READY
    /\ reports[att[a].reportId].transcript_text # att[a].pre.transcript_text
    /\ reports[att[a].reportId].extracted_json # att[a].pre.extracted_json
    /\ reports[att[a].reportId].markdown_content # att[a].pre.markdown_content

\* C23: an invocation without override on a row that is FAILED starts the
\* sequence from audio retrieval: its adapter calls are a prefix of audio
\* retrieval, transcription, extraction, its PROCESSING update precedes the
\* first of them, the transcript it hands to extraction is the trimmed text
\* its own transcription returned, the extraction it renders is the one
\* computed from its own reply, and on success the row holds exactly that
\* bundle; a transcript or extraction already stored on the row is never
\* taken over.
C23_ResubmissionStartsOver ==
  \A a \in Attempts :
    (att[a].pc # "idle" /\ att[a].pre.status = FAILED /\ ~att[a].override.given) =>
      /\ att[a].calls \in {<<>>, <<"audio">>, <<"audio", "transcribe">>,
                           <<"audio", "transcribe", "extract">>}
      /\ att[a].calls # <<>> => att[a].writes # <<>> /\ att[a].writes[1] = PROCESSING
      /\ att[a].pc \in {"audio", "transcribe"} => att[a].transcriptText = <<>>
      /\ (att[a].pc \in {"extract", "markReady"} \/ "extract" \in Range(att[a].calls)) =>
           /\ att[a].obtained.has
           /\ att[a].transcriptText = Trim(att[a].obtained.text)
           /\ Len(att[a].calls) >= 2
      /\ Rendered(a) =>
           att[a].extractedJson =
             normalizeExtracted(extractedSchemaParse(parseJsonObject(att[a].raw).value).value)
      /\ (Done(a) /\ att[a].err = "none") =>
           /\ reports[att[a].reportId].status = READY
           /\ ContentOf(reports[att[a].reportId]) = Bundle(a)

C23_Witness ==
  \E a \in Attempts :
    /\ Done(a)
    /\ att[a].pre.status = FAILED
    /\ att[a].pre.transcript_text = SAMPLE_TRANSCRIPT
    /\ att[a].pre.extracted_json = EarlierExtracted
    /\ ~att[a].override.given
    /\ att[a].calls = <<"audio", "transcribe", "extract">>
    /\ att[a].writes = <<PROCESSING, READY>>
    /\ reports[att[a].reportId].status = READY
    /\ reports[att[a].reportId].transcript_text = <<"concrete delivery 2 hours late">>
    /\ reports[att[a].reportId].extracted_json # EarlierExtracted

\* sub occurs in s as a contiguous run of tokens
Contains(s, sub) ==
  \E i \in 1..(Len(s) - Len(sub) + 1) : SubSeq(s, i, i + Len(sub) - 1) = sub

\* C24: when an invocation that was given a transcript override, on a row
\* created UPLOADING, completes without error, the row is READY, its
\* markdown_content holds the DAILY CONSTRUCTION REPORT title, the stored
\* extraction and summary are the ones that invocation normalised and
\* rendered, and every subcontractor of the stored workPerformed that is not
\* null occurs in the stored summary.
C24_SummaryMatchesExtracted ==
  \A a \in Attempts :
    ( /\ Done(a) /\ att[a].err = "none"
      /\ att[a].override.given
      /\ att[a].pre.status = UPLOADING )
    => LET row == reports[att[a].reportId]
       IN  /\ row.status = READY
           /\ Contains(row.markdown_content, <<"# DAILY CONSTRUCTION REPORT">>)
           /\ row.extracted_json = att[a].extractedJson
           /\ row.markdown_content = att[a].markdownContent
           /\ \A i \in 1..Len(row.extracted_json.workPerformed) :
                row.extracted_json.workPerformed[i].subcontractor.t = "str" =>
                  Contains(row.markdown_content,
                           row.extracted_json.workPerformed[i].subcontractor.s)

C24_Witness ==
  \E a \in Attempts :
    /\ Done(a) /\ att[a].err = "none"
    /\ att[a].override = Override(<<" ">> \o SAMPLE_TRANSCRIPT \o <<" ">>)
    /\ att[a].pre.status = UPLOADING
    /\ att[a].calls = <<"extract">>
    /\ reports[att[a].reportId].status = READY
    /\ Len(reports[att[a].reportId].extracted_json.workPerformed) = 3
    /\ reports[att[a].reportId].extracted_json.workPerformed[2].subcontractor
         = JStr(<<"Acme Electric">>)
    /\ Contains(reports[att[a].reportId].markdown_content, <<"Acme Electric">>)
    /\ Contains(reports[att[a].reportId].markdown_content, <<"Southern Masonry">>)

\* the table with the status of row id replaced
WithStatus(id, status) ==
  IF Exists(id) THEN [reports EXCEPT ![id].status = status] ELSE reports

\* C25: the step in which the FAILED update of an invocation settles leaves
\* the table as it was or changes the status of its row alone, and so does
\* the step in which its PROCESSING update settles; the content columns of a
\* row change only in a step in which an invocation's READY update is
\* applied, so an invocation that fails stores nothing of what it produced.
C25_StatusOnlyWrites ==
  [][/\ \A a \in Attempts :
          /\ (att[a].pc = "catch" /\ att'[a].pc = "done") =>
               reports' \in {reports, WithStatus(att[a].reportId, FAILED)}
          /\ (att[a].pc = "markProcessing" /\ att'[a].pc # "markProcessing") =>
               reports' \in {reports, WithStatus(att[a].reportId, PROCESSING)}
     /\ \A id \in DOMAIN reports :
          ContentOf(reports'[id]) # ContentOf(reports[id]) =>
            \E a \in Attempts :
              /\ att[a].reportId = id
              /\ att'[a].writes = Append(att[a].writes, READY)
              /\ ContentOf(reports'[id]) = Bundle(a)]_vars

C25_Witness ==
  \E a \in Attempts :
    /\ Done(a)
    /\ Rendered(a)
    /\ att[a].err = "ReadyWriteError"
    /\ att[a].writes = <<PROCESSING, FAILED>>
    /\ att[a].pre.status = READY
    /\ reports[att[a].reportId].status = FAILED
    /\ ContentOf(reports[att[a].reportId]) = ContentOf(att[a].pre)
    /\ reports[att[a].reportId].extracted_json # att[a].extractedJson

\* C26: the adapter calls of an invocation are, in this order and each at
\* most once, audio retrieval, transcription, extraction (extraction alone
\* when a non-blank override replaces the transcript); once the invocation
\* has failed it calls no further adapter; its READY update comes after the
\* extraction call and is its last update.
C26_SequentialNoRetry ==
  [][\A a \in Attempts :
       /\ att'[a].calls \in {<<>>, <<"audio">>, <<"audio", "transcribe">>,
                             <<"audio", "transcribe", "extract">>, <<"extract">>}
       /\ att'[a].calls = <<"extract">> => OverrideText(att'[a].override) # <<>>
       /\ att[a].err # "none" =>
            /\ att'[a].calls = att[a].calls
            /\ att'[a].err = att[a].err
            /\ READY \notin Range(att'[a].writes)
       /\ READY \in Range(att'[a].writes) =>
            /\ Last(att'[a].calls) = "extract"
            /\ Last(att'[a].writes) = READY]_vars

C26_Witness ==
  \E a, b \in Attempts :
    /\ a # b
    /\ Done(a) /\ Done(b)
    /\ att[a].err = "TranscriptionError"
    /\ att[a].calls = <<"audio", "transcribe">>
    /\ att[b].err = "none"
    /\ att[b].calls = <<"audio", "transcribe", "extract">>
    /\ att[b].writes = <<PROCESSING, READY>>

\* C27: no step of processReport adds or removes a row or changes a row's
\* file_key, and whenever a step changes a row its status afterwards is
\* PROCESSING, READY or FAILED, never UPLOADING or DRAFT.
C27_WritesOnlyStatusAndContent ==
  [][/\ DOMAIN reports' = DOMAIN reports
     /\ \A id \in DOMAIN reports :
          /\ reports'[id].file_key = reports[id].file_key
          /\ reports'[id] # reports[id] =>
               reports'[id].status \in {PROCESSING, READY, FAILED}]_vars

C27_Witness ==
  /\ reports["r1"].status = READY
  /\ prevStatus["r1"] = PROCESSING
  /\ reports["r1"].file_key = UploadCreated("r1").file_key
  /\ reports["r2"].status = FAILED
  /\ prevStatus["r2"] = UPLOADING
  /\ reports["r2"].file_key = TestCreated("r2").file_key
  /\ DOMAIN reports = ReportIds

\* C28: a row changes only in a step of one invocation whose reportId is
\* that row's id; no step changes two rows, so an invocation for one row,
\* whatever its outcome and however it interleaves with an invocation for
\* another row, leaves that other row as it is.
C28_NoCrossRecordInterference ==
  [][\A id \in DOMAIN reports :
       reports'[id] # reports[id] =>
         /\ \A other \in DOMAIN reports \ {id} : reports'[other] = reports[other]
         /\ \E a \in Attempts :
              /\ att[a].reportId = id
              /\ att'[a] # att[a]
              /\ \A b \in Attempts \ {a} : att'[b] = att[b]]_vars

C28_Witness ==
  \E a, b \in Attempts :
    /\ att[a].reportId = "r1" /\ att[b].reportId = "r2"
    /\ att[a].overlapped /\ att[b].overlapped
    /\ Done(a) /\ Done(b)
    /\ att[a].writes = <<PROCESSING, READY>>
    /\ att[b].writes = <<PROCESSING, FAILED>>
    /\ ContentOf(reports["r1"]) = Bundle(a)
    /\ ContentOf(reports["r2"]) = ContentOf(TestCreated("r2"))
    /\ reports["r1"].status = READY
    /\ reports["r2"].status = FAILED

\* C30: whenever a row is READY, the update applied to it last is the READY
\* update of one invocation, and the row's transcript, extraction and summary
\* are all three that invocation's; the stored summary is the rendering of
\* the stored transcript and extraction.
C30_ReadyBundleFromOneAttempt ==
  \A id \in DOMAIN reports :
    reports[id].status = READY =>
      /\ writers[id].last \in Attempts
      /\ writers[id].terminal = writers[id].last
      /\ att[writers[id].last].reportId = id
      /\ Last(att[writers[id].last].writes) = READY
      /\ reports[id].transcript_text = att[writers[id].last].transcriptText
      /\ reports[id].extracted_json = att[writers[id].last].extractedJson
      /\ reports[id].markdown_content = att[writers[id].last].markdownContent
      /\ reports[id].markdown_content =
           buildMarkdown(id, reports[id].transcript_text, reports[id].extracted_json)

C30_Witness ==
  \E id \in DOMAIN reports : \E a, b \in Attempts :
    /\ a # b
    /\ att[a].reportId = id /\ att[b].reportId = id
    /\ att[a].overlapped /\ att[b].overlapped
    /\ att[a].writes = <<PROCESSING, READY>>
    /\ att[b].writes = <<PROCESSING, READY>>
    /\ att[a].transcriptText # att[b].transcriptText
    /\ att[a].extractedJson # att[b].extractedJson
    /\ writers[id].last = b
    /\ reports[id].status = READY
    /\ ContentOf(reports[id]) = Bundle(b)

\* C29: every row the upload route creates starts UPLOADING with an empty
\* transcript_text, an empty markdown_content and a storage key of its own,
\* and is created by a request whose body and storage configuration passed;
\* a request answered 400, or 500 for missing configuration or a failed
\* creation, has created no row; the report id is returned, with 200, only
\* by a request whose row was created and whose URL was signed, and a request
\* whose signing failed returns none.
C29_UploadCreatesUploading ==
  [][/\ DOMAIN reports \subseteq DOMAIN reports'
     /\ \A id \in DOMAIN reports' \ DOMAIN reports :
          /\ reports'[id].status = UPLOADING
          /\ reports'[id].transcript_text = <<>>
          /\ reports'[id].markdown_content = <<>>
          /\ reports'[id].file_key # <<>>
          /\ \A other \in DOMAIN reports : reports[other].file_key # reports'[id].file_key
          /\ \E q \in Requests :
               /\ requests[q].pc = "create"
               /\ requests'[q].pc = "sign"
               /\ requests'[q].reportId = id
     /\ Cardinality(DOMAIN reports') =
          Cardinality({q \in Requests : requests'[q].reportId # MissingId})
     /\ \A q \in Requests :
          /\ requests'[q].response = 200 <=> requests'[q].returned # "none"
          /\ requests'[q].returned # "none" =>
               /\ requests'[q].returned = requests'[q].reportId
               /\ requests'[q].returned \in DOMAIN reports'
               /\ requests'[q].error = "none"
               /\ requests[q].pc \in {"sign", "done"}
          /\ requests'[q].error \in {"InvalidJson", "InvalidPayload"} =>
               requests'[q].response = 400 /\ requests'[q].reportId = MissingId
          /\ requests'[q].error \in {"MissingConfig", "CreateFailed"} =>
               requests'[q].response = 500 /\ requests'[q].reportId = MissingId
          /\ requests'[q].error = "SignFailed" =>
               requests'[q].response = 500 /\ requests'[q].returned = "none"]_vars

C29_Witness ==
  /\ requests["q1"].response = 200
  /\ requests["q1"].returned = "r1"
  /\ requests["q2"].error = "SignFailed"
  /\ requests["q2"].reportId = "r2"
  /\ DOMAIN reports = {"r1", "r2"}
  /\ reports["r2"].status = UPLOADING
  /\ reports["r1"].status = READY


\* no update of the invocation was rejected by the store
WritesSucceeded(a) ==
  /\ ~att[a].swallowed
  /\ att[a].err \notin {"ProcessingWriteError", "ReadyWriteError"}

\* C31: when the store has rejected no update of the invocations on a row, a
\* row that reads PROCESSING was last written by an invocation that is still
\* in flight (its terminal update is still to come), also when that
\* PROCESSING update followed the terminal update of another invocation; so
\* once every invocation on the row has completed the row is READY or FAILED.
C31_ProcessingFollowedByTerminal ==
  \A id \in DOMAIN reports :
    (\A a \in Attempts : att[a].reportId = id => WritesSucceeded(a))
    => /\ reports[id].status = PROCESSING =>
            /\ writers[id].last \in Attempts
            /\ att[writers[id].last].reportId = id
            /\ InFlight(writers[id].last)
       /\ ( /\ \E a \in Attempts : att[a].reportId = id /\ Done(a)
            /\ \A a \in Attempts : att[a].reportId = id => Done(a) )
          => reports[id].status \in {READY, FAILED}

\* both invocations ran together on r1 and completed; the READY update of a1
\* was followed by the PROCESSING update of a2 and then by its FAILED update
C31_Witness ==
  /\ Done("a1") /\ Done("a2")
  /\ att["a1"].reportId = "r1" /\ att["a2"].reportId = "r1"
  /\ WritesSucceeded("a1") /\ WritesSucceeded("a2")
  /\ att["a2"].overlapped
  /\ att["a1"].writes = <<PROCESSING, READY>>
  /\ att["a2"].writes = <<PROCESSING, FAILED>>
  /\ reports["r1"].status = FAILED
  /\ prevStatus["r1"] = PROCESSING
  /\ ContentOf(reports["r1"]) = Bundle("a1")


\* C32: when every pipeline step succeeded and the READY update is rejected,
\* control passes to the catch clause with that error and READY is not among
\* the invocation's writes; the catch clause then issues the FAILED update
\* (applied, or rejected and swallowed), rethrows the error of the READY
\* update, and leaves the row FAILED, or as it was when the FAILED update is
\* rejected too; the row is READY afterwards only by the update of another
\* invocation.
C32_ReadyWriteFailureHandled ==
  [][\A a \in Attempts :
       LET id == att[a].reportId
       IN  /\ ( /\ att[a].pc = "markReady"
                /\ att'[a].pc # "markReady"
                /\ READY \notin Range(att'[a].writes) )
              => /\ att'[a].pc = "catch"
                 /\ att'[a].err = "ReadyWriteError"
                 /\ reports' = reports
           /\ ( /\ att[a].pc = "catch"
                /\ att[a].err = "ReadyWriteError"
                /\ att'[a].pc # "catch" )
              => /\ att'[a].pc = "done"
                 /\ att'[a].thrown = "ReadyWriteError"
                 /\ READY \notin Range(att'[a].writes)
                 /\ \/ /\ ~att'[a].swallowed
                       /\ reports' = [reports EXCEPT ![id].status = FAILED]
                       /\ Last(att'[a].writes) = FAILED
                    \/ /\ att'[a].swallowed
                       /\ reports' = reports
                 /\ reports'[id].status = READY =>
                      /\ att'[a].swallowed
                      /\ writers'[id].terminal # a]_vars

\* every step of a1 succeeded, its READY update was rejected, its FAILED
\* update was applied and the error of the READY update was rethrown
C32_Witness ==
  /\ Done("a1")
  /\ att["a1"].reportId = "r1"
  /\ att["a1"].calls = <<"audio", "transcribe", "extract">>
  /\ att["a1"].markdownContent # <<>>
  /\ att["a1"].err = "ReadyWriteError"
  /\ att["a1"].thrown = "ReadyWriteError"
  /\ att["a1"].writes = <<PROCESSING, FAILED>>
  /\ att["a2"].pc = "idle"
  /\ reports["r1"].status = FAILED
  /\ reports["r1"].markdown_content = <<>>


\* C33 as stated: a reply in which a collection is explicitly null passes
\* validation like one in which it is absent: the invocation does not fail
\* with a validation error, the collection is normalised to the empty
\* sequence, and the READY update is reached.
C33_NullCollectionLikeAbsent ==
  \A a \in Attempts :
    (ReplyParsed(a) /\ ReplyValue(a) \in NullCollectionDocuments) =>
      /\ att[a].err # "ValidationError"
      /\ Rendered(a)
      /\ \A k \in Collections :
           Get(ReplyValue(a).o, k).t = "null" => att[a].extractedJson[k] = <<>>
      /\ att[a].pc \in {"markReady", "catch", "done"}
      /\ att[a].pc = "catch" => att[a].err = "ReadyWriteError"


\* C34 as stated: a crew size with a fractional part normalises to the same
\* integer whether the reply carries it as a number or as its string form.
C34_NumberAndStringAgree ==
  \A a \in Attempts :
    (ReplyParsed(a) /\ ReplyValue(a) \in FractionalCrewDocuments /\ Rendered(a)) =>
      att[a].extractedJson.workPerformed[1].crewSize
        = att[a].extractedJson.workPerformed[2].crewSize


\* C35: the review client's interval is set exactly while the status it was
\* rendered with is neither READY nor FAILED (so for UPLOADING, DRAFT and
\* PROCESSING); a refresh is issued only by the set interval; the interval is
\* cleared only by a render that shows READY or FAILED; and for a row that
\* never left UPLOADING the interval stays set.
C35_PollsWhileNotTerminal ==
  [][/\ review'.open =>
          (review'.interval <=> review'.status \notin {READY, FAILED})
     /\ review'.status \in {UPLOADING, DRAFT, PROCESSING} => review'.interval
     /\ (review'.refreshes # review.refreshes \/ (review'.pending /\ ~review.pending))
          => review.interval
     /\ (review.interval /\ ~review'.interval) => review'.status \in {READY, FAILED}
     /\ ( /\ review'.open
          /\ reports'[review'.reportId].status = UPLOADING
          /\ prevStatus'[review'.reportId] = "NONE" )
        => review'.status = UPLOADING /\ review'.interval]_vars

\* the page of r1 was opened while the row was UPLOADING, was refreshed, and
\* stopped polling on the render that showed READY
C35_Witness ==
  /\ review.open
  /\ review.reportId = "r1"
  /\ review.refreshes = MaxRefreshes
  /\ review.status = READY
  /\ ~review.interval
  /\ ~review.pending
  /\ reports["r1"].status = READY


\* C36: processing is triggered at most once per recording, and exactly for
\* a recording whose audio was not empty and whose upload-session request
\* and PUT both succeeded; when onstop ends because the recording was empty
\* or one of the two requests failed, no trigger is sent and the recorder is
\* idle with an error message.
C36_TriggerOnlyAfterUpload ==
  [][\A i \in Recordings :
       /\ recorder'.rec[i].triggers <= 1
       /\ recorder'.rec[i].triggers = 1 <=> recorder'.rec[i].outcome = "uploaded"
       /\ recorder'.rec[i].triggers # recorder.rec[i].triggers =>
            /\ recorder.rec[i].onstop = "put"
            /\ recorder'.status = "success"
       /\ recorder.rec[i].onstop = "put" =>
            /\ recorder.rec[i].outcome = "none"
            /\ recorder.rec[i].triggers = 0
       /\ ( /\ recorder.rec[i].outcome = "none"
            /\ recorder'.rec[i].outcome \in {"empty", "sessionFailed", "putFailed"} )
          => /\ recorder'.status = "idle"
             /\ recorder'.errorMessage
             /\ recorder'.rec[i].triggers = 0
             /\ \A j \in Recordings :
                  recorder'.rec[j].triggers = recorder.rec[j].triggers]_vars

\* one recording was uploaded and triggered processing once; the next one
\* failed at the PUT and left the recorder idle with an error message
C36_Witness ==
  /\ recorder.rec[1].outcome = "uploaded"
  /\ recorder.rec[1].triggers = 1
  /\ recorder.rec[2].outcome = "putFailed"
  /\ recorder.rec[2].triggers = 0
  /\ recorder.status = "idle"
  /\ recorder.errorMessage

\* C37: once stopAndUpload has set the status to uploading, the status
\* eventually becomes success or idle, given that queued events are
\* dispatched and the upload requests settle.
C37_UploadingEnds ==
  (recorder.status = "uploading") ~> (recorder.status \in {"success", "idle"})

\* stop was requested when the MediaRecorder was already inactive, and the
\* recorder has left uploading
C37_Witness ==
  /\ recorder.rec[1].requested
  /\ recorder.rec[1].stoppedInactive
  /\ recorder.rec[1].onstop = "done"
  /\ recorder.status \in {"success", "idle"}


\* C38: a browser is launched only by a request whose payload was valid and
\* whose executable path was configured; a request that launched a browser
\* is answered only after browser.close() was called on it once, after the
\* rendering succeeded or threw; the PDF is returned only with the browser
\* closed, and the browser is still open at the response only when close()
\* itself was rejected.
C38_BrowserClosedBeforeResponse ==
  [][\A p \in PdfRequests :
       /\ pdf'[p].browser # "none" => pdf'[p].body = "ok" /\ pdf'[p].pathSet
       /\ (pdf[p].browser = "none" /\ pdf'[p].browser # "none") =>
            pdf[p].pc = "launch" /\ pdf'[p].browser = "open"
       /\ pdf'[p].closeCalls <= 1
       /\ pdf'[p].closeCalls = 1 => pdf'[p].rendered \in {"ok", "throws"}
       /\ (pdf'[p].response # 0 /\ pdf'[p].browser # "none") =>
            /\ pdf'[p].closeCalls = 1
            /\ pdf'[p].browser = "closed" \/ pdf'[p].closeFailed
       /\ pdf'[p].response = 200 =>
            pdf'[p].rendered = "ok" /\ pdf'[p].browser = "closed"]_vars

\* one request rendered its PDF, one failed while rendering, both with the
\* browser closed; one was refused before any browser was launched
C38_Witness ==
  /\ pdf["p1"].response = 200 /\ pdf["p1"].browser = "closed"
  /\ pdf["p2"].rendered = "throws" /\ pdf["p2"].response = 500
  /\ pdf["p2"].browser = "closed" /\ pdf["p2"].closeCalls = 1
  /\ pdf["p3"].body = "ok" /\ ~pdf["p3"].pathSet
  /\ pdf["p3"].response = 500 /\ pdf["p3"].browser = "none"


\* the last path segment of a key
C39_Segment(key) == SubSeq(key, LastIndexOf(key, "/") + 1, Len(key))

\* the extension of a key: what follows the last dot of its last segment
C39_Extension(key) ==
  LET seg == C39_Segment(key)
  IN  IF LastIndexOf(seg, ".") = 0 THEN <<>>
      ELSE SubSeq(seg, LastIndexOf(seg, ".") + 1, Len(seg))

C39_Table ==
  [u \in {<<"m", "p", "3">>, <<"M", "P", "3">>, <<"M", "p", "3">>,
          <<"m", "p", "e", "g">>, <<"M", "P", "E", "G">>} |-> "audio/mpeg"]
  @@ [u \in {<<"w", "a", "v">>, <<"W", "A", "V">>, <<"W", "a", "v">>} |-> "audio/wav"]
  @@ [u \in {<<"m", "4", "a">>, <<"M", "4", "A">>} |-> "audio/mp4"]

\* C39: the mime type an invocation infers from the storage key of its row
\* is audio/mpeg for the extensions mp3 and mpeg, audio/wav for wav and
\* audio/mp4 for m4a, in any letter case, and the one default audio/webm for
\* every key with another extension or none.
C39_MimeTypeFromExtension ==
  \A a \in Attempts :
    att[a].mimeType # "none" =>
      att[a].mimeType =
        IF C39_Extension(att[a].file_key) \in DOMAIN C39_Table
        THEN C39_Table[C39_Extension(att[a].file_key)]
        ELSE "audio/webm"

\* the key of the row ends in .MP3 and the invocation inferred audio/mpeg
C39_Witness ==
  /\ att["a1"].reportId = "r1"
  /\ att["a1"].file_key = <<"a", "/", "r", ".", "M", "P", "3">>
  /\ att["a1"].mimeType = "audio/mpeg"
  /\ "transcribe" \in Range(att["a1"].calls)

====
